---- MODULE Spec2Model ----
(***************************************************************************)
(* The descriptor cache (utils/descriptorCache.ts), the hot-update         *)
(* classifier (handleHotUpdate.ts) and the head of the main transform      *)
(* (main.ts) of the Vue single-file-component plugin.                      *)
(*                                                                         *)
(* Strings of the program (module urls, attribute values, variable names)  *)
(* are TLA+ strings; substring and regular-expression tests are computed   *)
(* on their characters.                                                    *)
(***************************************************************************)
EXTENDS Integers, Sequences, FiniteSets, TLC

VARIABLES
    cache,        \* descriptorCache.ts:26   Map filename -> descriptor
    hmrCache,     \* descriptorCache.ts:28   Map filename -> descriptor
    prevCache,    \* descriptorCache.ts:30   Map filename -> descriptor
    clientCache,  \* script.ts: descriptors that have a resolved script
    typeDepToSFCMap,  \* script.ts: type dependency -> the components using it
    options,      \* the resolved plugin options (root, isProduction)
    disk,         \* the file system: filename -> content, or NoFile
    calls,        \* handleHotUpdate calls suspended at `await read()`
    edited,       \* per file: the content that was live before the last edit
    pend,         \* per file: position of the host in the edit event
    budget,       \* operations the host may still start
    ev            \* the last step: the operation, its arguments, what it returned

vars == <<cache, hmrCache, prevCache, clientCache, typeDepToSFCMap, options,
          disk, calls, edited, pend, budget, ev>>

----------------------------------------------------------------------------
(* Bounds of the model *)

MaxOps == 3        \* operations of one run of the free interleaving
MaxEdits == 3      \* edit events of one run of the serialized host
MaxCalls == 2      \* handleHotUpdate calls in flight at once
MaxDev == 1        \* blocks in which a file's content departs from BaseSource
MaxLinks == 3      \* linkSrcToDescriptor calls of one run of the src links
MaxMapLine == 2    \* generated lines of a source map of the model
MaxMapColumn == 1  \* generated columns of a source map of the model
MaxRaceEdits == 2  \* edit events of one run of the host without serialization

----------------------------------------------------------------------------
(* JavaScript values *)

Absent == "undefined"                 \* an undefined string or module
NoBlock == [null |-> TRUE]            \* descriptor.template === null
NoDescriptor == [undefined |-> TRUE]  \* Map.get of a missing key
NoId == [undefined |-> TRUE]          \* descriptor.id before it is stamped
NoFile == [enoent |-> TRUE]           \* no such file on disk
AttrTrue == "#true"      \* the boolean true of a valueless attribute

Char(s, i) == SubSeq(s, i, i)

Includes(s, p) ==
    \E i \in 1..(Len(s) - Len(p) + 1) : SubSeq(s, i, i + Len(p) - 1) = p

EndsWith(s, p) ==
    /\ Len(p) <= Len(s)
    /\ SubSeq(s, Len(s) - Len(p) + 1, Len(s)) = p

WordChars ==
    {"a", "b", "c", "d", "e", "f", "g", "h", "i", "j", "k", "l", "m",
     "n", "o", "p", "q", "r", "s", "t", "u", "v", "w", "x", "y", "z",
     "A", "B", "C", "D", "E", "F", "G", "H", "I", "J", "K", "L", "M",
     "N", "O", "P", "Q", "R", "S", "T", "U", "V", "W", "X", "Y", "Z",
     "0", "1", "2", "3", "4", "5", "6", "7", "8", "9", "_"}

IsWord(s, i) == i >= 1 /\ i <= Len(s) /\ Char(s, i) \in WordChars

\* Array.prototype.join('') on a sequence of strings
RECURSIVE Join(_)
Join(ss) == IF ss = <<>> THEN "" ELSE Head(ss) \o Join(Tail(ss))

\* Set.prototype.add on an insertion-ordered set kept as a sequence
\* Array.prototype.push in place of Set.prototype.add
SetAdd_Push(seq, x) == Append(seq, x)

SetAdd(seq, x) ==
    IF \E i \in 1..Len(seq) : seq[i] = x THEN seq ELSE Append(seq, x)

RECURSIVE SetAddAll(_, _)
SetAddAll(seq, xs) ==
    IF xs = <<>> THEN seq ELSE SetAddAll(SetAdd(seq, Head(xs)), Tail(xs))

\* Array.prototype.find, given the positions of the elements that satisfy
\* the test: the first of them, 0 when there is none (undefined)
Find(hits) ==
    IF hits = {} THEN 0 ELSE CHOOSE i \in hits : \A j \in hits : i <= j

----------------------------------------------------------------------------
(* Blocks and descriptors (vue/compiler-sfc SFCBlock, SFCDescriptor) *)

\* a block: its tag, its text, and its attributes in source order
Blk(type, content, attrs) ==
    [type |-> type, content |-> content, attrs |-> attrs]

HasAttr(b, k) == \E i \in 1..Len(b.attrs) : b.attrs[i][1] = k

\* attrs[key]: undefined when the block has no such attribute
Attr(b, k) ==
    IF HasAttr(b, k)
    THEN LET i == CHOOSE j \in 1..Len(b.attrs) : b.attrs[j][1] = k
         IN b.attrs[i][2]
    ELSE Absent

\* block.src and block.lang are the string values of the attributes
BlockSrc(b) ==
    IF HasAttr(b, "src") /\ Attr(b, "src") # AttrTrue THEN Attr(b, "src") ELSE Absent

BlockLang(b) ==
    IF HasAttr(b, "lang") /\ Attr(b, "lang") # AttrTrue THEN Attr(b, "lang") ELSE Absent

\* style.scoped
BlockScoped(b) == HasAttr(b, "scoped")

\* truthiness of a string-or-undefined value
Truthy(v) == v # Absent /\ v # ""

\* the names bound by v-bind(...) in a style text, in order of occurrence
\* (what the parser stores in descriptor.cssVars)
RECURSIVE VarEnd(_, _)
VarEnd(s, i) == IF i > Len(s) \/ Char(s, i) = ")" THEN i ELSE VarEnd(s, i + 1)

RECURSIVE ParseVars(_, _)
ParseVars(s, i) ==
    IF i + 6 > Len(s) THEN <<>>
    ELSE IF SubSeq(s, i, i + 6) = "v-bind("
         THEN LET e == VarEnd(s, i + 7)
              IN <<SubSeq(s, i + 7, e - 1)>> \o ParseVars(s, e + 1)
         ELSE ParseVars(s, i + 1)

RECURSIVE CssVarsOf(_)
CssVarsOf(styles) ==
    IF styles = <<>> THEN <<>>
    ELSE ParseVars(Head(styles).content, 1) \o CssVarsOf(Tail(styles))

\* compiler.parse(source, {filename, sourceMap}): the file's text is kept
\* as the blocks it declares and the errors its syntax gives
Parse(source, filename) ==
    [descriptor |->
        [filename |-> filename,
         source |-> source,
         id |-> NoId,
         script |-> source.script,
         scriptSetup |-> source.scriptSetup,
         template |-> source.template,
         styles |-> source.styles,
         customBlocks |-> source.customBlocks,
         cssVars |-> CssVarsOf(source.styles)],
     errors |-> source.errors]

----------------------------------------------------------------------------
(* Resolved scripts (script.ts) and the compiler's reload predicate *)

ImportNames == <<"Foo", "Bar">>

IsImportUsed(name, d) ==
    d.template # NoBlock /\ Includes(d.template.content, name)

\* compileScript: the imports of a <script setup>, each with whether the
\* template used it when the script was compiled
ImportsOf(d) ==
    LET declared(n) == Includes(d.scriptSetup.content, "import " \o n)
        names == SelectSeq(ImportNames, declared)
    IN [i \in 1..Len(names) |->
           [name |-> names[i], isUsedInTemplate |-> IsImportUsed(names[i], d)]]

\* resolveScript: what a compile of d stores for d
CompileScript(d) ==
    [hasImports |-> d.scriptSetup # NoBlock,
     imports |-> IF d.scriptSetup # NoBlock THEN ImportsOf(d) ELSE <<>>]

HasResolvedScript(cc, d) == \E e \in cc : e.key = d

\* getResolvedScript(descriptor, false); call it only when there is one
getResolvedScript(cc, d) == (CHOOSE e \in cc : e.key = d).val

\* setResolvedScript(descriptor, script, false)
setResolvedScript(cc, d, r) ==
    {e \in cc : e.key # d} \cup {[key |-> d, val |-> r]}

\* descriptor.shouldForceReload(prevImports)
shouldForceReload(next, prevImports) ==
    /\ next.scriptSetup # NoBlock
    /\ BlockLang(next.scriptSetup) \in {"ts", "tsx"}
    /\ \E i \in 1..Len(prevImports) :
          /\ ~prevImports[i].isUsedInTemplate
          /\ IsImportUsed(prevImports[i].name, next)

----------------------------------------------------------------------------
(* The block diff (handleHotUpdate.ts) *)

\* isEqualBlock without line 178
isEqualBlock_NoSrcShortcut(a, b) ==
    IF a = NoBlock /\ b = NoBlock THEN TRUE
    ELSE IF a = NoBlock \/ b = NoBlock THEN FALSE
    ELSE IF a.content # b.content THEN FALSE
    ELSE IF Len(a.attrs) # Len(b.attrs) THEN FALSE
    ELSE \A i \in 1..Len(a.attrs) :
            Attr(a, a.attrs[i][1]) = Attr(b, a.attrs[i][1])

\* isEqualBlock comparing the attributes position by position
isEqualBlock_AttrsInOrder(a, b) ==
    IF a = NoBlock /\ b = NoBlock THEN TRUE
    ELSE IF a = NoBlock \/ b = NoBlock THEN FALSE
    ELSE IF Truthy(BlockSrc(a)) /\ Truthy(BlockSrc(b)) /\ BlockSrc(a) = BlockSrc(b)
         THEN TRUE
    ELSE a.content = b.content /\ a.attrs = b.attrs

isEqualBlock(a, b) ==
    IF a = NoBlock /\ b = NoBlock THEN TRUE
    ELSE IF a = NoBlock \/ b = NoBlock THEN FALSE
    ELSE IF Truthy(BlockSrc(a)) /\ Truthy(BlockSrc(b)) /\ BlockSrc(a) = BlockSrc(b)
         THEN TRUE
    ELSE IF a.content # b.content THEN FALSE
    ELSE IF Len(a.attrs) # Len(b.attrs) THEN FALSE
    ELSE \A i \in 1..Len(a.attrs) :
            Attr(a, a.attrs[i][1]) = Attr(b, a.attrs[i][1])

\* hasScriptChanged without lines 213-222
hasScriptChanged_BlocksOnly(cc, prev, next) ==
    ~isEqualBlock(prev.script, next.script)
    \/ ~isEqualBlock(prev.scriptSetup, next.scriptSetup)

hasScriptChanged(cc, prev, next) ==
    IF ~isEqualBlock(prev.script, next.script) THEN TRUE
    ELSE IF ~isEqualBlock(prev.scriptSetup, next.scriptSetup) THEN TRUE
    ELSE IF HasResolvedScript(cc, prev) /\ getResolvedScript(cc, prev).hasImports
         THEN \/ next.template = NoBlock
              \/ shouldForceReload(next, getResolvedScript(cc, prev).imports)
    ELSE FALSE

\* styles[i] of a JavaScript array, i counted from 0
At(seq, i) == IF i + 1 <= Len(seq) THEN seq[i + 1] ELSE NoBlock

isOnlyTemplateChanged(cc, prev, next) ==
    /\ ~hasScriptChanged(cc, prev, next)
    /\ Len(prev.styles) = Len(next.styles)
    /\ \A i \in 0..(Len(prev.styles) - 1) :
          isEqualBlock(At(prev.styles, i), At(next.styles, i))
    /\ Len(prev.customBlocks) = Len(next.customBlocks)
    /\ \A i \in 0..(Len(prev.customBlocks) - 1) :
          isEqualBlock(At(prev.customBlocks, i), At(next.customBlocks, i))

----------------------------------------------------------------------------
(* Live modules (vite ModuleNode): a url and the urls of the importers *)

Mod(url, importers) == [url |-> url, importers |-> importers]

UrlAt(modules, i) == IF i = 0 THEN Absent ELSE modules[i].url

\* /(?:\?|&)direct\b/
directRequestRE(url) ==
    \E i \in 1..Len(url) :
        /\ Char(url, i) \in {"?", "&"}
        /\ i + 6 <= Len(url)
        /\ SubSeq(url, i + 1, i + 6) = "direct"
        /\ ~IsWord(url, i + 7)

\* vite isCSSRequest: /\.(css|less|sass|scss|styl|stylus|pcss|postcss|sss)(?:$|\?)/
CssLangs == {"css", "less", "sass", "scss", "styl", "stylus", "pcss", "postcss", "sss"}

isCSSRequest(url) ==
    \E l \in CssLangs : EndsWith(url, "." \o l) \/ Includes(url, "." \o l \o "?")

\* the modules kept by getMainModule's filter
IsMainCandidate(m) == ~Includes(m.url, "type=") \/ Includes(m.url, "type=script")

\* getMainModule: the shortest url among the candidates; the sort is stable,
\* so the earliest of the shortest
getMainModule(modules) ==
    LET c == {i \in 1..Len(modules) : IsMainCandidate(modules[i])}
    IN IF c = {} THEN 0
       ELSE CHOOSE i \in c :
              \A j \in c : \/ Len(modules[i].url) < Len(modules[j].url)
                           \/ Len(modules[i].url) = Len(modules[j].url) /\ i <= j

\* /type=script.*&lang\.\w+$/
IsScriptUrl(url) ==
    \E i \in 1..Len(url) :
        /\ i + 10 <= Len(url)
        /\ SubSeq(url, i, i + 10) = "type=script"
        /\ \E j \in (i + 11)..Len(url) :
              /\ j + 6 <= Len(url)
              /\ SubSeq(url, j, j + 5) = "&lang."
              /\ \A k \in (j + 6)..Len(url) : IsWord(url, k)

getScriptModule(modules) ==
    Find({i \in 1..Len(modules) : IsScriptUrl(modules[i].url)})

getTemplateModule(modules) ==
    Find({i \in 1..Len(modules) : Includes(modules[i].url, "type=template")})

\* the lookup of lines 99-104 without the test of line 103
FindStyleModule_AcceptDirect(modules, i, next) ==
    LET lang == IF Truthy(BlockLang(next)) THEN BlockLang(next) ELSE "css"
    IN Find({k \in 1..Len(modules) :
                /\ Includes(modules[k].url, "type=style&index=" \o ToString(i))
                /\ EndsWith(modules[k].url, "." \o lang)})

\* the lookup of the live module of style block i (lines 99-104)
FindStyleModule(modules, i, next) ==
    LET lang == IF Truthy(BlockLang(next)) THEN BlockLang(next) ELSE "css"
    IN Find({k \in 1..Len(modules) :
                /\ Includes(modules[k].url, "type=style&index=" \o ToString(i))
                /\ EndsWith(modules[k].url, "." \o lang)
                /\ ~directRequestRE(modules[k].url)})

\* the lookup of the live module of custom block i (lines 136-138)
FindCustomModule(modules, i, prev) ==
    Find({k \in 1..Len(modules) :
             Includes(modules[k].url, "type=" \o prev.type \o "&index=" \o ToString(i))})

----------------------------------------------------------------------------
(* The update classifier: handleHotUpdate from line 46 to its return.      *)
(* The affected set holds module urls; Absent stands for an undefined      *)
(* module added to the set.                                                *)

\* lines 94-115
RECURSIVE StyleLoop(_, _, _, _, _, _)
StyleLoop(i, acc, prevStyles, nextStyles, modules, mainUrl) ==
    IF i >= Len(nextStyles) THEN acc
    ELSE LET prev == At(prevStyles, i)
             next == At(nextStyles, i)
         IN IF prev = NoBlock \/ ~isEqualBlock(prev, next)
            THEN LET mod == FindStyleModule(modules, i, next)
                     found == SetAdd(acc.affected, UrlAt(modules, mod))
                     a == IF mod # 0
                          THEN IF Includes(modules[mod].url, "&inline")
                               THEN SetAdd(found, mainUrl)
                               ELSE found
                          ELSE SetAdd(acc.affected, mainUrl)
                 IN StyleLoop(i + 1, [affected |-> a, didUpdateStyle |-> TRUE],
                              prevStyles, nextStyles, modules, mainUrl)
            ELSE StyleLoop(i + 1, acc, prevStyles, nextStyles, modules, mainUrl)

\* lines 132-145 without the else branch of lines 141-143
RECURSIVE CustomLoop_NoFallback(_, _, _, _, _, _)
CustomLoop_NoFallback(i, affected, prevCustoms, nextCustoms, modules, mainUrl) ==
    IF i >= Len(nextCustoms) THEN affected
    ELSE LET prev == At(prevCustoms, i)
             next == At(nextCustoms, i)
         IN IF prev = NoBlock \/ ~isEqualBlock(prev, next)
            THEN LET mod == FindCustomModule(modules, i, prev)
                     a == IF mod # 0 THEN SetAdd(affected, modules[mod].url) ELSE affected
                 IN CustomLoop_NoFallback(i + 1, a, prevCustoms, nextCustoms,
                                          modules, mainUrl)
            ELSE CustomLoop_NoFallback(i + 1, affected, prevCustoms, nextCustoms,
                                       modules, mainUrl)

\* lines 132-145
RECURSIVE CustomLoop(_, _, _, _, _, _)
CustomLoop(i, affected, prevCustoms, nextCustoms, modules, mainUrl) ==
    IF i >= Len(nextCustoms) THEN affected
    ELSE LET prev == At(prevCustoms, i)
             next == At(nextCustoms, i)
         IN IF prev = NoBlock \/ ~isEqualBlock(prev, next)
            THEN LET mod == FindCustomModule(modules, i, prev)
                     a == IF mod # 0
                          THEN SetAdd(affected, modules[mod].url)
                          ELSE SetAdd(affected, mainUrl)
                 IN CustomLoop(i + 1, a, prevCustoms, nextCustoms, modules, mainUrl)
            ELSE CustomLoop(i + 1, affected, prevCustoms, nextCustoms, modules, mainUrl)

AnyScoped(styles) == \E i \in 1..Len(styles) : BlockScoped(styles[i])

HasUrl(affected, url) == \E i \in 1..Len(affected) : affected[i] = url

\* lines 46-60: the two descriptors, the live modules and the modules and
\* facts every rule reads
Facts(cc, prevDescriptor, descriptor, modules, main) ==
    [prev |-> prevDescriptor,
     next |-> descriptor,
     modules |-> modules,
     main |-> main,
     mainUrl |-> UrlAt(modules, main),
     templateUrl |-> UrlAt(modules, getTemplateModule(modules)),
     scriptUrl |-> UrlAt(modules, getScriptModule(modules)),
     scriptChanged |-> hasScriptChanged(cc, prevDescriptor, descriptor),
     templateChanged |-> ~isEqualBlock(descriptor.template, prevDescriptor.template),
     cssVarsChanged |-> Join(prevDescriptor.cssVars) # Join(descriptor.cssVars),
     scopedChanged |-> AnyScoped(prevDescriptor.styles) # AnyScoped(descriptor.styles),
     stylesRemoved |-> Len(prevDescriptor.styles) > Len(descriptor.styles),
     customsChanged |->
        \/ Len(prevDescriptor.customBlocks) # Len(descriptor.customBlocks)
        \/ \E i \in 0..(Len(descriptor.customBlocks) - 1) :
              ~isEqualBlock(At(prevDescriptor.customBlocks, i),
                            At(descriptor.customBlocks, i))]

\* line 55 adding the main module whether or not a script module is live
ScriptRule_AlwaysMain(x) ==
    IF x.scriptChanged THEN <<x.mainUrl>> ELSE <<>>

\* lines 53-56
ScriptRule(x) ==
    IF x.scriptChanged
    THEN <<IF x.scriptUrl # Absent THEN x.scriptUrl ELSE x.mainUrl>>
    ELSE <<>>

\* lines 60-74
TemplateRule(a, x) == IF x.templateChanged THEN SetAdd(a, x.templateUrl) ELSE a

\* lines 81-83
CssVarsRule(a, x) == IF x.cssVarsChanged THEN SetAdd(a, x.mainUrl) ELSE a

\* lines 86-90 without line 89
ScopedRule_TemplateOnly(a, x) ==
    IF x.scopedChanged THEN SetAdd(a, x.templateUrl) ELSE a

\* lines 86-90
ScopedRule(a, x) ==
    IF x.scopedChanged THEN SetAdd(SetAdd(a, x.templateUrl), x.mainUrl) ELSE a

\* lines 94-115
StyleRule(a, x) ==
    StyleLoop(0, [affected |-> a, didUpdateStyle |-> FALSE],
              x.prev.styles, x.next.styles, x.modules, x.mainUrl)

\* lines 116-119 left out
StyleRemovedRule_Skipped(a, x) == a

\* lines 116-119
StyleRemovedRule(a, x) == IF x.stylesRemoved THEN SetAdd(a, x.mainUrl) ELSE a

\* lines 128-146 without the loop of lines 132-145
CustomRule_CountOnly(a, x) ==
    IF Len(x.prev.customBlocks) # Len(x.next.customBlocks)
    THEN SetAdd(a, x.mainUrl)
    ELSE a

\* lines 128-146
CustomRule(a, x) ==
    IF Len(x.prev.customBlocks) # Len(x.next.customBlocks)
    THEN SetAdd(a, x.mainUrl)
    ELSE CustomLoop(0, a, x.prev.customBlocks, x.next.customBlocks,
                    x.modules, x.mainUrl)

\* lines 149-160 adding the main module whether or not the template has a
\* module of its own
RerenderRule_AddsMain(a, x) ==
    IF x.templateChanged THEN SetAdd(a, x.mainUrl) ELSE a

\* lines 149-160 adding the importers also when the template has no module
RerenderRule_ImportersToo(a, x) ==
    IF x.templateChanged
    THEN IF x.templateUrl = Absent
         THEN IF x.main # 0
              THEN SetAddAll(SetAdd(a, x.mainUrl),
                             SelectSeq(x.modules[x.main].importers, isCSSRequest))
              ELSE SetAdd(a, x.mainUrl)
         ELSE IF x.main # 0 /\ ~HasUrl(a, x.mainUrl)
              THEN SetAddAll(a, SelectSeq(x.modules[x.main].importers, isCSSRequest))
              ELSE a
    ELSE a

\* lines 149-160 without the test `!affectedModules.has(mainModule)`
RerenderRule_AlwaysImporters(a, x) ==
    IF x.templateChanged
    THEN IF x.templateUrl = Absent THEN SetAdd(a, x.mainUrl)
         ELSE IF x.main # 0
              THEN SetAddAll(a, SelectSeq(x.modules[x.main].importers, isCSSRequest))
              ELSE a
    ELSE a

\* lines 149-160
RerenderRule(a, x) ==
    IF x.templateChanged
    THEN IF x.templateUrl = Absent THEN SetAdd(a, x.mainUrl)
         ELSE IF x.main # 0 /\ ~HasUrl(a, x.mainUrl)
              THEN SetAddAll(a, SelectSeq(x.modules[x.main].importers, isCSSRequest))
              ELSE a
    ELSE a

\* line 164 testing needRerender alone
ShouldInvalidate_TemplateOnly(needRerender, didUpdateStyle) == needRerender

\* line 167 without the test of line 164
ShouldInvalidate_Always(needRerender, didUpdateStyle) == TRUE

\* the condition of line 164: updateType is not empty
ShouldInvalidate(needRerender, didUpdateStyle) == needRerender \/ didUpdateStyle

\* lines 148-170 with the reuse of lines 65-71 made whenever the template
\* changed
Outcome_AttachOnTemplate(x, styled, affected) ==
    [scriptChanged |-> x.scriptChanged,
     templateChanged |-> x.templateChanged,
     cssVarsChanged |-> x.cssVarsChanged,
     scopedChanged |-> x.scopedChanged,
     didUpdateStyle |-> styled,
     stylesRemoved |-> x.stylesRemoved,
     customsChanged |-> x.customsChanged,
     attach |-> x.templateChanged,
     affected |-> affected,
     updateType |-> (IF x.templateChanged THEN <<"template">> ELSE <<>>)
                    \o (IF styled THEN <<"style">> ELSE <<>>),
     invalidate |-> ShouldInvalidate(x.templateChanged, styled),
     result |-> SelectSeq(affected, LAMBDA u : u # Absent)]

\* lines 148-170
Outcome(x, styled, affected) ==
    [scriptChanged |-> x.scriptChanged,
     templateChanged |-> x.templateChanged,
     cssVarsChanged |-> x.cssVarsChanged,
     scopedChanged |-> x.scopedChanged,
     didUpdateStyle |-> styled,
     stylesRemoved |-> x.stylesRemoved,
     customsChanged |-> x.customsChanged,
     attach |-> x.templateChanged /\ ~x.scriptChanged,
     affected |-> affected,
     updateType |-> (IF x.templateChanged THEN <<"template">> ELSE <<>>)
                    \o (IF styled THEN <<"style">> ELSE <<>>),
     invalidate |-> ShouldInvalidate(x.templateChanged, styled),
     result |-> SelectSeq(affected, LAMBDA u : u # Absent)]

AfterStyles(x, loop) ==
    Outcome(x, loop.didUpdateStyle,
            RerenderRule(CustomRule(StyleRemovedRule(loop.affected, x), x), x))

Rules(x) ==
    AfterStyles(x, StyleRule(ScopedRule(CssVarsRule(TemplateRule(ScriptRule(x), x), x), x), x))

Classify(cc, prevDescriptor, descriptor, modules) ==
    Rules(Facts(cc, prevDescriptor, descriptor, modules, getMainModule(modules)))

----------------------------------------------------------------------------
(* The descriptor cache (utils/descriptorCache.ts) *)

Files == {"/src/A.vue", "/src/B.vue"}

EmptyMap == [f \in Files |-> NoDescriptor]

\* the three maps as one value, so that an operation is a function on it
Caches == [cache |-> cache, hmrCache |-> hmrCache, prevCache |-> prevCache]

\* slash(path.normalize(path.relative(root, filename)))
normalizedPath(root, filename) ==
    IF Len(filename) > Len(root) + 1 /\ SubSeq(filename, 1, Len(root) + 1) = root \o "/"
    THEN SubSeq(filename, Len(root) + 2, Len(filename))
    ELSE filename

\* sha256(text) cut to 8 hex digits, taken to be free of collisions
getHash(text) == [hash |-> text]

\* line 50 storing only a descriptor parsed without errors
Store_OnlyClean(c, descriptor, errors, filename, hmr) ==
    [c |-> IF errors # <<>> THEN c
           ELSE IF hmr THEN [c EXCEPT !.hmrCache[filename] = descriptor]
           ELSE [c EXCEPT !.cache[filename] = descriptor],
     descriptor |-> descriptor,
     errors |-> errors]

\* lines 46-51: the id is stamped and the descriptor stored
Store(c, descriptor, errors, filename, hmr) ==
    [c |-> IF hmr THEN [c EXCEPT !.hmrCache[filename] = descriptor]
           ELSE [c EXCEPT !.cache[filename] = descriptor],
     descriptor |-> descriptor,
     errors |-> errors]

\* line 49 hashing the source in every mode
Stamp_HashSource(c, opts, parsed, filename, source, hmr) ==
    Store(c,
          [parsed.descriptor EXCEPT !.id =
              getHash(<<normalizedPath(opts.root, filename)>> \o <<source>>)],
          parsed.errors, filename, hmr)

Stamp(c, opts, parsed, filename, source, hmr) ==
    Store(c,
          [parsed.descriptor EXCEPT !.id =
              getHash(<<normalizedPath(opts.root, filename)>>
                      \o (IF opts.isProduction THEN <<source>> ELSE <<>>))],
          parsed.errors, filename, hmr)

createDescriptor(c, opts, filename, source, hmr) ==
    Stamp(c, opts, Parse(source, filename), filename, source, hmr)

getPrevDescriptor(c, filename) == c.prevCache[filename]

\* Map.get and Map.set of cache under a key that need not be a component file
MapGet(m, key) == IF key \in DOMAIN m THEN m[key] ELSE NoDescriptor

MapSet(m, key, entry) ==
    [k \in DOMAIN m \cup {key} |-> IF k = key THEN entry ELSE m[k]]

\* `${filename}?src=${id}`, the id in the text form it has in a request
SrcKey(filename, id) == filename \o "?src=" \o id

\* setSrcDescriptor writing the plain key whatever the scoped flag
setSrcDescriptor_PlainKey(m, filename, entry, scoped) == MapSet(m, filename, entry)

\* setSrcDescriptor(filename, entry, scoped) on the map cache
setSrcDescriptor(m, filename, entry, scoped) ==
    IF scoped THEN MapSet(m, SrcKey(filename, ToString(entry.id)), entry)
    ELSE MapSet(m, filename, entry)

\* getSrcDescriptor(filename, query) on the map cache
getSrcDescriptor(m, filename, query) ==
    IF query.scoped THEN MapGet(m, SrcKey(filename, query.src))
    ELSE MapGet(m, filename)

\* srcFile.replace(/\?.*$/, '')
StripQuery(srcFile) ==
    IF Find({i \in 1..Len(srcFile) : Char(srcFile, i) = "?"}) = 0 THEN srcFile
    ELSE SubSeq(srcFile, 1, Find({i \in 1..Len(srcFile) : Char(srcFile, i) = "?"}) - 1)

\* linkSrcToDescriptor(src, descriptor, pluginContext, scoped), resolved
\* being what pluginContext.resolve gave (undefined when it gave nothing)
linkSrcToDescriptor(m, src, descriptor, resolved, scoped) ==
    setSrcDescriptor(m, StripQuery(IF Truthy(resolved) THEN resolved ELSE src),
                     descriptor, scoped)

\* invalidateDescriptor emptying the map instead of deleting one key
invalidateDescriptor_Clear(c, filename, hmr) ==
    LET prev == IF hmr THEN c.hmrCache[filename] ELSE c.cache[filename]
        deleted == IF hmr THEN [c EXCEPT !.hmrCache = EmptyMap]
                   ELSE [c EXCEPT !.cache = EmptyMap]
    IN IF prev # NoDescriptor
       THEN [deleted EXCEPT !.prevCache[filename] = prev]
       ELSE deleted

\* invalidateDescriptor without the delete of line 62
invalidateDescriptor_KeepEntry(c, filename, hmr) ==
    LET prev == IF hmr THEN c.hmrCache[filename] ELSE c.cache[filename]
    IN IF prev # NoDescriptor
       THEN [c EXCEPT !.prevCache[filename] = prev]
       ELSE c

\* invalidateDescriptor without the test of line 63
invalidateDescriptor_NoGuard(c, filename, hmr) ==
    LET prev == IF hmr THEN c.hmrCache[filename] ELSE c.cache[filename]
        deleted == IF hmr THEN [c EXCEPT !.hmrCache[filename] = NoDescriptor]
                   ELSE [c EXCEPT !.cache[filename] = NoDescriptor]
    IN [deleted EXCEPT !.prevCache[filename] = prev]

\* invalidateDescriptor always taking the hmrCache entry
invalidateDescriptor_HmrMap(c, filename, hmr) ==
    LET prev == c.hmrCache[filename]
        deleted == [c EXCEPT !.hmrCache[filename] = NoDescriptor]
    IN IF prev # NoDescriptor
       THEN [deleted EXCEPT !.prevCache[filename] = prev]
       ELSE deleted

\* invalidateDescriptor deleting the entry of both maps
invalidateDescriptor_BothMaps(c, filename, hmr) ==
    LET prev == IF hmr THEN c.hmrCache[filename] ELSE c.cache[filename]
        deleted == [c EXCEPT !.hmrCache[filename] = NoDescriptor,
                             !.cache[filename] = NoDescriptor]
    IN IF prev # NoDescriptor
       THEN [deleted EXCEPT !.prevCache[filename] = prev]
       ELSE deleted

invalidateDescriptor(c, filename, hmr) ==
    LET prev == IF hmr THEN c.hmrCache[filename] ELSE c.cache[filename]
        deleted == IF hmr THEN [c EXCEPT !.hmrCache[filename] = NoDescriptor]
                   ELSE [c EXCEPT !.cache[filename] = NoDescriptor]
    IN IF prev # NoDescriptor
       THEN [deleted EXCEPT !.prevCache[filename] = prev]
       ELSE deleted

\* line 87 without `&& !hmr`
Created_AlwaysThrow(made, hmr) ==
    IF made.errors # <<>>
    THEN [c |-> made.c, ret |-> NoDescriptor, thrown |-> "parse", read |-> TRUE]
    ELSE [c |-> made.c, ret |-> made.descriptor, thrown |-> "none", read |-> TRUE]

\* lines 81-90: the descriptor has been created from the file's content
Created(made, hmr) ==
    IF made.errors # <<>> /\ ~hmr
    THEN [c |-> made.c, ret |-> NoDescriptor, thrown |-> "parse", read |-> TRUE]
    ELSE [c |-> made.c, ret |-> made.descriptor, thrown |-> "none", read |-> TRUE]

\* getDescriptor without the test of line 80
getDescriptor_AlwaysCreate(c, opts, fs, filename, createIfNotFound, hmr) ==
    IF (IF hmr THEN c.hmrCache[filename] ELSE c.cache[filename]) # NoDescriptor
    THEN [c |-> c, ret |-> IF hmr THEN c.hmrCache[filename] ELSE c.cache[filename],
          thrown |-> "none", read |-> FALSE]
    ELSE IF fs[filename] = NoFile
    THEN [c |-> c, ret |-> NoDescriptor, thrown |-> "read", read |-> TRUE]
    ELSE Created(createDescriptor(c, opts, filename, fs[filename], hmr), hmr)

\* getDescriptor: the maps afterwards, the value returned, what was thrown
\* ("read": fs.readFileSync failed, "parse": errors[0]), and whether the
\* file was read
getDescriptor(c, opts, fs, filename, createIfNotFound, hmr) ==
    IF (IF hmr THEN c.hmrCache[filename] ELSE c.cache[filename]) # NoDescriptor
    THEN [c |-> c, ret |-> IF hmr THEN c.hmrCache[filename] ELSE c.cache[filename],
          thrown |-> "none", read |-> FALSE]
    ELSE IF ~createIfNotFound
    THEN [c |-> c, ret |-> NoDescriptor, thrown |-> "none", read |-> FALSE]
    ELSE IF fs[filename] = NoFile
    THEN [c |-> c, ret |-> NoDescriptor, thrown |-> "read", read |-> TRUE]
    ELSE Created(createDescriptor(c, opts, filename, fs[filename], hmr), hmr)

----------------------------------------------------------------------------
(* File contents.  A content is the blocks its text declares; the contents *)
(* of the model are BaseSource with up to MaxDev of its parts rewritten.   *)

SetupAttrs == << <<"setup", AttrTrue>>, <<"lang", "ts">> >>

ScriptTexts ==
    << NoBlock,
       Blk("script", "export default {}", <<>>) >>

SetupTexts ==
    << Blk("script", "import Foo", SetupAttrs),
       Blk("script", "import Foo; let n", SetupAttrs),
       NoBlock >>

TemplateTexts ==
    << Blk("template", "<p/>", <<>>),
       Blk("template", "<b/>", <<>>),
       Blk("template", "<Foo/>", <<>>),
       NoBlock >>

StyleTexts ==
    << << Blk("style", "a{}", <<>>) >>,
       << Blk("style", "b{}", <<>>) >>,
       << Blk("style", "a{}", << <<"scoped", AttrTrue>> >>) >>,
       << Blk("style", "a{}", <<>>), Blk("style", "c{}", <<>>) >>,
       << >>,
       << Blk("style", "a{}", << <<"lang", "scss">> >>) >>,
       << Blk("style", "a{color:v-bind(x)}", <<>>) >>,
       << Blk("style", "", << <<"src", "./a.css">> >>) >>,
       << Blk("style", "/**/", << <<"src", "./a.css">> >>) >> >>

CustomTexts ==
    << << Blk("i18n", "{}", <<>>) >>,
       << Blk("i18n", "{a}", <<>>) >>,
       << Blk("docs", "{}", <<>>) >>,
       << >>,
       << Blk("i18n", "{}", <<>>), Blk("docs", "#", <<>>) >> >>

ErrorTexts ==
    << << >>,
       << "Element is missing end tag." >> >>

\* the content whose parts are the k[i]-th variants; rev tells the saves
\* of a file apart (0: the content as first written)
Src(k) ==
    [rev |-> 0,
     script |-> ScriptTexts[k[1] + 1],
     scriptSetup |-> SetupTexts[k[2] + 1],
     template |-> TemplateTexts[k[3] + 1],
     styles |-> StyleTexts[k[4] + 1],
     customBlocks |-> CustomTexts[k[5] + 1],
     errors |-> ErrorTexts[k[6] + 1]]

SourceKeys ==
    {k \in (0..(Len(ScriptTexts) - 1)) \X (0..(Len(SetupTexts) - 1))
           \X (0..(Len(TemplateTexts) - 1)) \X (0..(Len(StyleTexts) - 1))
           \X (0..(Len(CustomTexts) - 1)) \X (0..(Len(ErrorTexts) - 1)) :
        Cardinality({i \in 1..6 : k[i] # 0}) <= MaxDev}

\* a file that is a <template> block and nothing else, with either text
MarkupOnlyKeys == {<<0, 2, 0, 4, 3, 0>>, <<0, 2, 1, 4, 3, 0>>}

Sources == {Src(k) : k \in SourceKeys \cup MarkupOnlyKeys}

BaseSource == Src(<<0, 0, 0, 0, 0, 0>>)

\* the contents the serialized host writes: the markup edited, the script
\* edited, both, a syntax error
DiskSources ==
    {BaseSource,
     Src(<<0, 0, 1, 0, 0, 0>>),
     Src(<<0, 1, 0, 0, 0, 0>>),
     Src(<<0, 1, 1, 0, 0, 0>>),
     Src(<<0, 0, 0, 0, 0, 1>>)}

\* the contents the free interleaving writes and compiles
FreeSources ==
    {BaseSource,
     Src(<<0, 0, 1, 0, 0, 0>>),
     Src(<<0, 0, 0, 0, 0, 1>>)}

----------------------------------------------------------------------------
(* Live module lists of /src/A.vue handed to handleHotUpdate *)

HotFile == "/src/A.vue"

MainUrl == "/src/A.vue"
TemplateUrl == "/src/A.vue?vue&type=template&lang.js"
ScriptUrl == "/src/A.vue?vue&type=script&setup=true&lang.ts"
Style0Url == "/src/A.vue?vue&type=style&index=0&lang.css"
Style0Scss == "/src/A.vue?vue&type=style&index=0&lang.scss"
Style0Inline == "/src/A.vue?vue&type=style&index=0&inline&lang.css"
Style0Direct == "/src/A.vue?direct&vue&type=style&index=0&lang.css"
Style1Url == "/src/A.vue?vue&type=style&index=1&lang.css"
I18n0Url == "/src/A.vue?vue&type=i18n&index=0&lang.i18n"
CssImporter == "/src/app.css"
JsImporter == "/src/main.ts"

ModuleLists ==
    { << >>,
      << Mod(MainUrl, <<JsImporter>>) >>,
      << Mod(TemplateUrl, <<>>), Mod(Style0Url, <<>>) >>,
      << Mod(MainUrl, <<JsImporter, CssImporter>>), Mod(TemplateUrl, <<>>),
         Mod(Style0Url, <<>>), Mod(I18n0Url, <<>>) >>,
      << Mod(ScriptUrl, <<>>), Mod(MainUrl, <<JsImporter>>), Mod(TemplateUrl, <<>>),
         Mod(Style0Scss, <<>>), Mod(Style1Url, <<>>) >>,
      << Mod(MainUrl, <<CssImporter>>), Mod(Style0Direct, <<>>),
         Mod(Style0Inline, <<>>) >>,
      << Mod(ScriptUrl, <<>>), Mod(TemplateUrl, <<>>), Mod(I18n0Url, <<>>) >> }

----------------------------------------------------------------------------
(* Operations.  Each is given as its effect on the program's state and the *)
(* record ev of what it did; the hosts below add their own bookkeeping.    *)

CallIds == 1..MaxCalls

NoCall == [idle |-> TRUE]
NoOut == [none |-> TRUE]

Event(op, file) ==
    [op |-> op, file |-> file, hmr |-> FALSE, create |-> FALSE,
     ret |-> NoDescriptor, thrown |-> "none", read |-> FALSE, errors |-> <<>>,
     prev |-> NoDescriptor, descriptor |-> NoDescriptor, modules |-> <<>>,
     out |-> NoOut, rerenderOnly |-> FALSE, resumed |-> FALSE]

SetCaches(c) ==
    /\ cache' = c.cache
    /\ hmrCache' = c.hmrCache
    /\ prevCache' = c.prevCache

\* clientCache is a WeakMap: an entry lives as long as its descriptor does
Held(c, cl) ==
    {c.cache[f] : f \in Files} \cup {c.hmrCache[f] : f \in Files}
    \cup {c.prevCache[f] : f \in Files}
    \cup {cl[k].prevDescriptor : k \in {j \in CallIds : cl[j] # NoCall}}

Collect(cc, c, cl) == {e \in cc : e.key \in Held(c, cl)}

\* the file is saved with content s, or removed (s = NoFile)
Write(f, s) ==
    /\ disk' = [disk EXCEPT ![f] = s]
    /\ ev' = Event("write", f)
    /\ UNCHANGED <<cache, hmrCache, prevCache, clientCache, options, typeDepToSFCMap, calls>>

Created2(f, hmr, made) ==
    /\ SetCaches(made.c)
    /\ clientCache' = Collect(clientCache, made.c, calls)
    /\ ev' = [Event("createDescriptor", f) EXCEPT
                 !.hmr = hmr, !.ret = made.descriptor, !.errors = made.errors,
                 !.descriptor = made.descriptor]
    /\ UNCHANGED <<options, typeDepToSFCMap, disk, calls>>

CreateDescriptor(f, s, hmr) ==
    Created2(f, hmr, createDescriptor(Caches, options, f, s, hmr))

Got(f, createIfNotFound, hmr, got) ==
    /\ SetCaches(got.c)
    /\ clientCache' = Collect(clientCache, got.c, calls)
    /\ ev' = [Event("getDescriptor", f) EXCEPT
                 !.hmr = hmr, !.create = createIfNotFound, !.ret = got.ret,
                 !.thrown = got.thrown, !.read = got.read]
    /\ UNCHANGED <<options, typeDepToSFCMap, disk, calls>>

GetDescriptor(f, createIfNotFound, hmr) ==
    Got(f, createIfNotFound, hmr,
        getDescriptor(Caches, options, disk, f, createIfNotFound, hmr))

Invalidated(f, hmr, c) ==
    /\ SetCaches(c)
    /\ clientCache' = Collect(clientCache, c, calls)
    /\ ev' = [Event("invalidateDescriptor", f) EXCEPT !.hmr = hmr]
    /\ UNCHANGED <<options, typeDepToSFCMap, disk, calls>>

InvalidateDescriptor(f, hmr) == Invalidated(f, hmr, invalidateDescriptor(Caches, f, hmr))

\* resolveScript(descriptor) in genScriptCode: null without a script block,
\* else the cached result or a fresh compile
resolveScript(cc, d) ==
    IF d.script = NoBlock /\ d.scriptSetup = NoBlock THEN cc
    ELSE IF HasResolvedScript(cc, d) THEN cc
    ELSE setResolvedScript(cc, d, CompileScript(d))

\* main.ts lines 51-56, 65 and 155: the errors stop the transform; else the
\* script is compiled and the rerender-only marker decided
Compiled(f, prevDescriptor, made, got, cc) ==
    /\ SetCaches(got.c)
    /\ clientCache' = Collect(cc, got.c, calls)
    /\ ev' = [Event("transformMain", f) EXCEPT
                 !.prev = prevDescriptor, !.descriptor = made.descriptor,
                 !.errors = made.errors,
                 !.thrown = IF made.errors # <<>> THEN "parse" ELSE got.thrown,
                 !.read = got.read,
                 !.rerenderOnly =
                     /\ made.errors = <<>>
                     /\ ~options.isProduction
                     /\ prevDescriptor # NoDescriptor
                     /\ isOnlyTemplateChanged(cc, prevDescriptor, made.descriptor)]
    /\ UNCHANGED <<options, typeDepToSFCMap, disk, calls>>

\* main.ts lines 47-49: set descriptor for HMR if it's not set yet
Parsed(f, prevDescriptor, made) ==
    Compiled(f, prevDescriptor, made,
             IF disk[f] # NoFile
             THEN getDescriptor(made.c, options, disk, f, TRUE, TRUE)
             ELSE [c |-> made.c, ret |-> NoDescriptor, thrown |-> "none", read |-> FALSE],
             IF made.errors # <<>> THEN clientCache
             ELSE resolveScript(clientCache, made.descriptor))

\* transformMain(code, filename): lines 44-45, then the above
TransformMain(f, code) ==
    Parsed(f, getPrevDescriptor(Caches, f),
           createDescriptor(Caches, options, f, code, FALSE))

Suspended(k, f, modules, got, cl) ==
    /\ calls[k] = NoCall
    /\ SetCaches(got.c)
    /\ calls' = cl
    /\ clientCache' = Collect(clientCache, got.c, cl)
    /\ ev' = [Event(IF got.ret = NoDescriptor THEN "handleHotUpdate"
                    ELSE "handleHotUpdate.await", f)
                 EXCEPT !.hmr = TRUE, !.prev = got.ret, !.thrown = got.thrown,
                        !.read = got.read, !.modules = modules]
    /\ UNCHANGED <<options, typeDepToSFCMap, disk>>

Looked(k, f, modules, got) ==
    Suspended(k, f, modules, got,
              IF got.ret = NoDescriptor THEN calls
              ELSE [calls EXCEPT ![k] =
                       [file |-> f, prevDescriptor |-> got.ret, modules |-> modules]])

\* handleHotUpdate up to `await read()` (lines 36-42): without a descriptor
\* in hmrCache it returns, else it waits for the content
HotUpdateCall(k, f, modules) ==
    Looked(k, f, modules, getDescriptor(Caches, options, disk, f, FALSE, TRUE))

\* lines 164-170
Returned(k, f, made, out, cc, c, cl) ==
    /\ calls' = cl
    /\ SetCaches(c)
    /\ clientCache' = Collect(cc, c, cl)
    /\ ev' = [Event("handleHotUpdate", f) EXCEPT
                 !.hmr = TRUE, !.prev = calls[k].prevDescriptor,
                 !.descriptor = made.descriptor, !.errors = made.errors,
                 !.read = TRUE, !.modules = calls[k].modules, !.out = out,
                 !.resumed = TRUE]

\* lines 65-71 and 164-169
Classified(k, f, made, out) ==
    Returned(k, f, made, out,
             IF out.attach /\ HasResolvedScript(clientCache, calls[k].prevDescriptor)
             THEN setResolvedScript(clientCache, made.descriptor,
                                    getResolvedScript(clientCache, calls[k].prevDescriptor))
             ELSE clientCache,
             IF out.invalidate THEN invalidateDescriptor(made.c, f, FALSE) ELSE made.c,
             [calls EXCEPT ![k] = NoCall])

\* line 44 and the classifier
ContentRead(k, f, made) ==
    Classified(k, f, made,
               Classify(clientCache, calls[k].prevDescriptor, made.descriptor,
                        calls[k].modules))

ReadFailed(k, f, cl) ==
    /\ calls' = cl
    /\ UNCHANGED <<cache, hmrCache, prevCache>>
    /\ clientCache' = Collect(clientCache, Caches, cl)
    /\ ev' = [Event("handleHotUpdate", f) EXCEPT
                 !.hmr = TRUE, !.prev = calls[k].prevDescriptor,
                 !.thrown = "read", !.read = TRUE, !.modules = calls[k].modules,
                 !.resumed = TRUE]

\* handleHotUpdate from the content read to its return (lines 42-170)
HotUpdateResume(k) ==
    /\ calls[k] # NoCall
    /\ IF disk[calls[k].file] = NoFile
       THEN ReadFailed(k, calls[k].file, [calls EXCEPT ![k] = NoCall])
       ELSE ContentRead(k, calls[k].file,
                        createDescriptor(Caches, options, calls[k].file,
                                         disk[calls[k].file], TRUE))
    /\ UNCHANGED <<options, typeDepToSFCMap, disk>>

----------------------------------------------------------------------------
(* Hosts *)

InitProgram ==
    /\ cache = EmptyMap
    /\ hmrCache = EmptyMap
    /\ prevCache = EmptyMap
    /\ clientCache = {}
    /\ options = [root |-> "/src", isProduction |-> FALSE]
    /\ typeDepToSFCMap = {}
    /\ calls = [k \in CallIds |-> NoCall]
    /\ edited = [f \in Files |-> NoFile]
    /\ ev = Event("init", "")

FreeCall == CHOOSE k \in CallIds : calls[k] = NoCall /\ \A j \in CallIds : calls[j] = NoCall => k <= j

\* the module lists the free interleaving hands to handleHotUpdate
FreeModuleLists ==
    { << Mod(MainUrl, <<JsImporter>>) >>,
      << Mod(TemplateUrl, <<>>), Mod(Style0Url, <<>>) >> }

\* one more operation of the free interleaving
Spend ==
    /\ budget > 0
    /\ budget' = budget - 1
    /\ UNCHANGED <<edited, pend>>

(* The free interleaving: any operation on any file at any time. *)

Init ==
    /\ InitProgram
    /\ disk = [f \in Files |-> BaseSource]
    /\ pend = [f \in Files |-> "free"]
    /\ budget = MaxOps

FWrite == \E f \in Files, s \in FreeSources \cup {NoFile} : Spend /\ Write(f, s)

FCreate == \E f \in Files, s \in FreeSources, hmr \in BOOLEAN : Spend /\ CreateDescriptor(f, s, hmr)

FGet == \E f \in Files, create \in BOOLEAN, hmr \in BOOLEAN : Spend /\ GetDescriptor(f, create, hmr)

FInvalidate == \E f \in Files, hmr \in BOOLEAN : Spend /\ InvalidateDescriptor(f, hmr)

FTransform == \E f \in Files, code \in FreeSources : Spend /\ TransformMain(f, code)

FHotCall ==
    \E f \in Files, modules \in FreeModuleLists :
        /\ \E k \in CallIds : calls[k] = NoCall
        /\ Spend
        /\ HotUpdateCall(FreeCall, f, modules)

FHotResume == \E k \in CallIds : HotUpdateResume(k) /\ UNCHANGED <<edited, pend, budget>>

Next ==
    \/ FWrite
    \/ FCreate
    \/ FGet
    \/ FInvalidate
    \/ FTransform
    \/ FHotCall
    \/ FHotResume

Spec == Init /\ [][Next]_vars

(* The serialized host: one edit event of a file is processed to the end,  *)
(* handleHotUpdate and then the main transform of the new content, before  *)
(* the next one begins.                                                    *)

InitSerial ==
    /\ InitProgram
    /\ disk = [f \in Files |-> BaseSource]
    /\ pend = [f \in Files |-> IF f = HotFile THEN "load" ELSE "off"]
    /\ budget = MaxEdits

\* the first request of the file: its main transform
SLoad ==
    \E f \in Files :
        /\ pend[f] = "load"
        /\ TransformMain(f, disk[f])
        /\ pend' = [pend EXCEPT ![f] = "idle"]
        /\ UNCHANGED <<edited, budget>>

EditTo(f, s) ==
    /\ pend[f] = "idle"
    /\ budget > 0
    /\ Write(f, s)
    /\ edited' = [edited EXCEPT ![f] = disk[f]]
    /\ pend' = [pend EXCEPT ![f] = "hot"]
    /\ budget' = budget - 1

\* the content s as the n-th save of a file
Saved(s, n) == [s EXCEPT !.rev = n]

\* an edit of the serialized host changes the content; the saves of a file
\* are numbered
SEdit ==
    \E f \in Files, s \in DiskSources :
        /\ s # Saved(disk[f], 0)
        /\ EditTo(f, Saved(s, disk[f].rev + 1))

SHotCall ==
    \E f \in Files, modules \in ModuleLists :
        /\ pend[f] = "hot"
        /\ HotUpdateCall(1, f, modules)
        /\ pend' = [pend EXCEPT ![f] = IF calls'[1] = NoCall THEN "transform" ELSE "reading"]
        /\ UNCHANGED <<edited, budget>>

SHotResume ==
    /\ HotUpdateResume(1)
    /\ pend' = [pend EXCEPT ![calls[1].file] = "transform"]
    /\ UNCHANGED <<edited, budget>>

STransform ==
    \E f \in Files :
        /\ pend[f] = "transform"
        /\ TransformMain(f, disk[f])
        /\ pend' = [pend EXCEPT ![f] = "idle"]
        /\ UNCHANGED <<edited, budget>>

NextSerial ==
    \/ SLoad
    \/ SEdit
    \/ SHotCall
    \/ SHotResume
    \/ STransform

SpecSerial == InitSerial /\ [][NextSerial]_vars

(* One edit of an observed file, from any content to any content. *)

InitHot ==
    /\ InitProgram
    /\ disk \in {[f \in Files |-> IF f = HotFile THEN s ELSE BaseSource] : s \in Sources}
    /\ pend = [f \in Files |-> IF f = HotFile THEN "load" ELSE "off"]
    /\ budget = 1

HEdit == \E f \in Files, s \in Sources : EditTo(f, s)

NextHot ==
    \/ SLoad
    \/ HEdit
    \/ SHotCall
    \/ SHotResume
    \/ STransform

SpecHot == InitHot /\ [][NextHot]_vars

(* The host without serialization: the host reads a file for a request of  *)
(* its main module and hands the code to the main transform later, while   *)
(* edits and hot updates of the file go on.                                *)

InitRace ==
    /\ InitProgram
    /\ disk = [f \in Files |-> BaseSource]
    /\ pend = [f \in Files |-> {}]
    /\ budget = MaxRaceEdits

\* the host loads the file for a request of the main module
RLoad ==
    \E f \in {HotFile} :
        /\ disk[f] \notin pend[f]
        /\ pend' = [pend EXCEPT ![f] = @ \cup {disk[f]}]
        /\ ev' = Event("load", f)
        /\ UNCHANGED <<cache, hmrCache, prevCache, clientCache, options, typeDepToSFCMap, disk,
                       calls, edited, budget>>

\* the main transform of a code loaded earlier
RTransform ==
    \E f \in {HotFile} : \E code \in pend[f] :
        /\ TransformMain(f, code)
        /\ pend' = [pend EXCEPT ![f] = @ \ {code}]
        /\ UNCHANGED <<edited, budget>>

\* the contents the edits of this host alternate between
RaceSources == {BaseSource, Src(<<0, 0, 1, 0, 0, 0>>)}

REdit ==
    \E f \in {HotFile}, s \in RaceSources :
        /\ budget > 0
        /\ s # Saved(disk[f], 0)
        /\ Write(f, Saved(s, disk[f].rev + 1))
        /\ edited' = [edited EXCEPT ![f] = disk[f]]
        /\ budget' = budget - 1
        /\ UNCHANGED pend

\* a call may begin while another waits for the content
RHotCall ==
    \E f \in {HotFile}, modules \in {<< Mod(TemplateUrl, <<>>), Mod(Style0Url, <<>>) >>} :
        /\ \E k \in {1, 2} : calls[k] = NoCall
        /\ HotUpdateCall(IF calls[1] = NoCall THEN 1 ELSE 2, f, modules)
        /\ UNCHANGED <<edited, pend, budget>>

RHotResume == \E k \in {1, 2} : HotUpdateResume(k) /\ UNCHANGED <<edited, pend, budget>>

NextRace ==
    \/ RLoad
    \/ RTransform
    \/ REdit
    \/ RHotCall
    \/ RHotResume

SpecRace == InitRace /\ [][NextRace]_vars

----------------------------------------------------------------------------
(* Type dependencies: the plugin's handleHotUpdate hook (index.ts) and     *)
(* handleTypeDepChange.  typeDepToSFCMap is filled by script.ts from the   *)
(* type imports of the compiled scripts; here its content is given.        *)

\* typeDepToSFCMap.has(file) and typeDepToSFCMap.get(file); the components
\* of an entry are kept in the order of the Set
HasTypeDep(deps, file) == \E e \in deps : e.dep = file

GetTypeDep(deps, file) == (CHOOSE e \in deps : e.dep = file).sfcs

\* invalidateScript(filename) of script.ts: the resolved script of the
\* descriptor that cache holds for the file is dropped
invalidateScript(cc, c, f) ==
    IF c.cache[f] # NoDescriptor THEN {e \in cc : e.key # c.cache[f]} ELSE cc

\* the filter of included files: /\.vue$/ by default
filter(file) == EndsWith(file, ".vue")

\* moduleGraph.getModulesByFile(file): the modules of the file, or undefined
NoMods == [undefined |-> TRUE]
Mods(list) == [mods |-> list]

\* the module the loop adds for one component (lines 254-258); Absent when
\* the component has neither a script module nor a main module
TypeDepModule(arr) ==
    IF getScriptModule(arr) # 0 THEN arr[getScriptModule(arr)].url
    ELSE IF getMainModule(arr) # 0 THEN arr[getMainModule(arr)].url
    ELSE Absent

\* lines 251-259: the loop over the affected components
RECURSIVE TypeDepLoop(_, _, _)
TypeDepLoop(sfcs, graph, st) ==
    IF sfcs = <<>> THEN st
    ELSE TypeDepLoop(Tail(sfcs), graph,
            [cc |-> invalidateScript(st.cc, Caches, Head(sfcs)),
             affected |-> IF graph[Head(sfcs)] # NoMods
                          THEN SetAdd(st.affected, TypeDepModule(graph[Head(sfcs)].mods))
                          ELSE st.affected])

Urls(modules) == [i \in 1..Len(modules) |-> modules[i].url]

\* handleTypeDepChange(affectedComponents, ctx): line 260 returns the
\* modules of the event followed by the added ones
HandleTypeDepChange(file, sfcs, modules, graph) ==
    /\ clientCache' = TypeDepLoop(sfcs, graph, [cc |-> clientCache, affected |-> <<>>]).cc
    /\ ev' = [Event("handleTypeDepChange", file) EXCEPT
                 !.modules = modules,
                 !.out = [affectedComponents |-> sfcs, graph |-> graph,
                          result |-> Urls(modules) \o
                              TypeDepLoop(sfcs, graph,
                                  [cc |-> clientCache, affected |-> <<>>]).affected]]
    /\ UNCHANGED <<cache, hmrCache, prevCache, options, typeDepToSFCMap, disk, calls>>

\* the hook returns undefined for a file that is neither (index.ts:171)
NotHandled(file, modules) ==
    /\ ev' = [Event("handleHotUpdate.skip", file) EXCEPT !.modules = modules]
    /\ UNCHANGED <<cache, hmrCache, prevCache, clientCache, options, typeDepToSFCMap,
                   disk, calls>>

\* vuePlugin.handleHotUpdate(ctx) (index.ts:158-171); the type cache of the
\* compiler (lines 162-164) is not part of the state
PluginHandleHotUpdate(file, modules, graph) ==
    IF HasTypeDep(typeDepToSFCMap, file)
    THEN HandleTypeDepChange(file, GetTypeDep(typeDepToSFCMap, file), modules, graph)
    ELSE IF filter(file)
    THEN HotUpdateCall(1, file, modules)
    ELSE NotHandled(file, modules)

(* The host of the type dependencies: components are transformed, files    *)
(* change and the hook is called for them.                                 *)

DepFile == "/src/types.ts"
OtherFile == "/src/main.ts"

DepEntry(dep, sfcs) == [dep |-> dep, sfcs |-> sfcs]

\* the contents of typeDepToSFCMap of the model; a component may import
\* its types from another component
DepMaps ==
    { {},
      {DepEntry(DepFile, <<"/src/A.vue">>)},
      {DepEntry(DepFile, <<"/src/A.vue", "/src/B.vue">>)},
      {DepEntry(DepFile, <<>>)},
      {DepEntry("/src/B.vue", <<"/src/A.vue">>)} }

ScriptUrlOf(f) == f \o "?vue&type=script&setup=true&lang.ts"
StyleUrlOf(f) == f \o "?vue&type=style&index=0&lang.css"

\* what the module graph may hold for a component
GraphLists(f) ==
    { NoMods,
      Mods(<< Mod(f, <<>>) >>),
      Mods(<< Mod(f, <<>>), Mod(ScriptUrlOf(f), <<>>) >>),
      Mods(<< Mod(StyleUrlOf(f), <<>>) >>) }

Graphs == {[f \in Files |-> IF f = HotFile THEN a ELSE b] :
              a \in GraphLists(HotFile), b \in GraphLists("/src/B.vue")}

\* the modules of the event: those the graph holds for the file
CtxModules(file, graph) ==
    IF file \in Files
    THEN IF graph[file] = NoMods THEN <<>> ELSE graph[file].mods
    ELSE << Mod(file, <<>>) >>

InitDep ==
    /\ cache = EmptyMap
    /\ hmrCache = EmptyMap
    /\ prevCache = EmptyMap
    /\ clientCache = {}
    /\ options = [root |-> "/src", isProduction |-> FALSE]
    /\ typeDepToSFCMap \in DepMaps
    /\ calls = [k \in CallIds |-> NoCall]
    /\ edited = [f \in Files |-> NoFile]
    /\ ev = Event("init", "")
    /\ disk = [f \in Files |-> BaseSource]
    /\ pend = [f \in Files |-> "free"]
    /\ budget = MaxOps

DTransform == \E f \in Files : Spend /\ TransformMain(f, disk[f])

DHotUpdate ==
    \E file \in Files \cup {DepFile, OtherFile}, graph \in Graphs :
        /\ calls[1] = NoCall
        /\ Spend
        /\ PluginHandleHotUpdate(file, CtxModules(file, graph), graph)

DHotResume == HotUpdateResume(1) /\ UNCHANGED <<edited, pend, budget>>

NextDep ==
    \/ DTransform
    \/ DHotUpdate
    \/ DHotResume

SpecDep == InitDep /\ [][NextDep]_vars

(* Request addresses: attrsToQuery and the imports the main transform
   writes for the blocks of a descriptor (part_001). *)

ignoreList == {"id", "index", "src", "type", "lang", "module", "scoped", "generic"}

\* encodeURIComponent of one character: the reserved characters the
\* attributes of the model use are escaped, the others are kept
EncodeChar(c) ==
    IF c = " " THEN "%20" ELSE IF c = "&" THEN "%26" ELSE IF c = "=" THEN "%3D"
    ELSE IF c = "?" THEN "%3F" ELSE IF c = "/" THEN "%2F" ELSE IF c = "#" THEN "%23"
    ELSE c

RECURSIVE encodeURIComponent(_)
encodeURIComponent(s) ==
    IF s = "" THEN ""
    ELSE EncodeChar(Char(s, 1)) \o encodeURIComponent(SubSeq(s, 2, Len(s)))

\* `${value}` of an attribute value: the boolean true prints as true
AttrText(v) == IF v = AttrTrue THEN "true" ELSE v

\* the loop of attrsToQuery over the attributes in their own order
RECURSIVE AttrPairs(_)
AttrPairs(attrs) ==
    IF attrs = <<>> THEN ""
    ELSE (IF Head(attrs)[1] \in ignoreList THEN ""
          ELSE "&" \o encodeURIComponent(Head(attrs)[1])
               \o (IF Head(attrs)[2] # ""
                   THEN "=" \o encodeURIComponent(AttrText(Head(attrs)[2]))
                   ELSE ""))
         \o AttrPairs(Tail(attrs))

\* attrsToQuery(block.attrs, langFallback, forceLangFallback)
attrsToQuery(block, langFallback, forceLangFallback) ==
    AttrPairs(block.attrs)
    \o (IF Truthy(langFallback) \/ Truthy(Attr(block, "lang"))
        THEN IF HasAttr(block, "lang") /\ ~forceLangFallback
             THEN "&lang." \o AttrText(Attr(block, "lang"))
             ELSE "&lang." \o langFallback
        ELSE "")

\* request.replace(/\.(\w+)$/, '.module.$1') of genCSSModulesCode, given
\* the positions of a dot followed by word characters up to the end
ModuleRequest(request, dots) ==
    IF dots = {} THEN request
    ELSE SubSeq(request, 1, Find(dots) - 1) \o ".module"
         \o SubSeq(request, Find(dots), Len(request))

\* block.src || descriptor.filename
SrcOrFile(d, block) == IF Truthy(BlockSrc(block)) THEN BlockSrc(block) ELSE d.filename

\* `&src=${descriptor.id}`, '&src=true' or '' and `&scoped=${descriptor.id}` or ''
SrcQuery(d, block, scoped) ==
    (IF Truthy(BlockSrc(block))
     THEN IF scoped THEN "&src=" \o ToString(d.id) ELSE "&src=true"
     ELSE "")

ScopedQuery(d, scoped) == IF scoped THEN "&scoped=" \o ToString(d.id) ELSE ""

\* styleRequest of genStyleCode for the style block of index i (from 0)
StyleRequest(d, style, i, asCustomElement) ==
    SrcOrFile(d, style) \o "?vue&type=style&index=" \o ToString(i)
    \o SrcQuery(d, style, BlockScoped(style))
    \o (IF asCustomElement THEN "&inline" ELSE "")
    \o ScopedQuery(d, BlockScoped(style))
    \o attrsToQuery(style, "css", FALSE)

\* the address genStyleCode imports: the module request for <style module>
ImportedStyle(style, request) ==
    IF HasAttr(style, "module")
    THEN ModuleRequest(request,
             {p \in 1..(Len(request) - 1) :
                 /\ Char(request, p) = "."
                 /\ \A j \in (p + 1)..Len(request) : IsWord(request, j)})
    ELSE request

genStyleRequest(d, i, asCustomElement) ==
    ImportedStyle(d.styles[i + 1], StyleRequest(d, d.styles[i + 1], i, asCustomElement))

\* the request of genTemplateCode when the template is not inlined
genTemplateRequest(d) ==
    SrcOrFile(d, d.template) \o "?vue&type=template"
    \o SrcQuery(d, d.template, AnyScoped(d.styles))
    \o ScopedQuery(d, AnyScoped(d.styles))
    \o attrsToQuery(d.template, "js", TRUE)

\* path.extname(src).slice(1), given the positions of the dots of src
ExtName(src, dots) ==
    IF dots = {} THEN ""
    ELSE SubSeq(src, (CHOOSE p \in dots : \A q \in dots : q <= p) + 1, Len(src))

\* the request of genScriptCode for a script that is not inlined
ScriptRequest(d, src, ext) ==
    src \o "?vue&type=script" \o SrcQuery(d, d.script, FALSE)
    \o attrsToQuery(d.script, IF Truthy(BlockSrc(d.script)) /\ ext # "" THEN ext ELSE "js",
                    FALSE)

genScriptRequest(d) ==
    ScriptRequest(d, SrcOrFile(d, d.script),
                  ExtName(SrcOrFile(d, d.script),
                          {p \in 2..Len(SrcOrFile(d, d.script)) :
                              Char(SrcOrFile(d, d.script), p) = "."}))

\* the request of genCustomBlockCode for the custom block of index i
genCustomRequest(d, i) ==
    SrcOrFile(d, d.customBlocks[i + 1])
    \o "?vue&type=" \o d.customBlocks[i + 1].type \o "&index=" \o ToString(i)
    \o SrcQuery(d, d.customBlocks[i + 1], FALSE)
    \o attrsToQuery(d.customBlocks[i + 1], d.customBlocks[i + 1].type, FALSE)

\* the positions in a query string at which parameter name starts
ParamHits(raw, name) ==
    {i \in 1..(Len(raw) - Len(name) + 1) :
        /\ SubSeq(raw, i, i + Len(name) - 1) = name
        /\ (i = 1 \/ Char(raw, i - 1) = "&")
        /\ (i + Len(name) > Len(raw) \/ Char(raw, i + Len(name)) \in {"=", "&"})}

\* the value of the parameter that starts at position i: up to the next &
ParamAt(raw, from, ends) ==
    IF from > Len(raw) \/ Char(raw, from) # "=" THEN ""
    ELSE SubSeq(raw, from + 1,
                (IF {e \in ends : e > from} = {} THEN Len(raw) + 1
                 ELSE CHOOSE e \in ends : e > from /\ \A x \in ends : x > from => e <= x) - 1)

\* Object.fromEntries(new URLSearchParams(rawQuery))[name]: the last
\* parameter of that name, undefined when there is none
Param(raw, name) ==
    IF ParamHits(raw, name) = {} THEN Absent
    ELSE ParamAt(raw,
                 (CHOOSE i \in ParamHits(raw, name) :
                      \A j \in ParamHits(raw, name) : j <= i) + Len(name),
                 {e \in 1..Len(raw) : Char(raw, e) = "&"})

\* id.split('?', 2)[1]
RawQuery(id) ==
    IF StripQuery(id) = id THEN ""
    ELSE StripQuery(SubSeq(id, Len(StripQuery(id)) + 2, Len(id)))

\* parseVueRequest(id): the file name and the src and scoped parameters
parseVueRequest(id) ==
    [filename |-> StripQuery(id),
     query |-> [src |-> Param(RawQuery(id), "src"),
                scoped |-> Param(RawQuery(id), "scoped") # Absent]]

----------------------------------------------------------------------------
(* The block diff and the classifier on their own: isEqualBlock applied to *)
(* two blocks, and the rules of handleHotUpdate applied to two contents    *)
(* and a list of live modules.                                             *)

BlockTexts == {"", "a{}"}

BlockAttrs ==
    { <<>>,
      << <<"src", "./a.css">> >>,
      << <<"src", "./b.css">> >>,
      << <<"src", "">> >>,
      << <<"src", AttrTrue>> >>,
      << <<"src", "./a.css">>, <<"lang", "scss">> >>,
      << <<"lang", "scss">>, <<"src", "./a.css">> >>,
      << <<"lang", "scss">> >>,
      << <<"lang", "scss">>, <<"scoped", AttrTrue>> >>,
      << <<"scoped", AttrTrue>>, <<"lang", "scss">> >>,
      << <<"lang", "less">>, <<"scoped", AttrTrue>> >> }

Blocks == {NoBlock} \cup {Blk("style", t, a) : t \in BlockTexts, a \in BlockAttrs}

RECURSIVE Reverse(_)
Reverse(seq) == IF seq = <<>> THEN <<>> ELSE Append(Reverse(Tail(seq)), Head(seq))

\* the block with its attributes written in the opposite order
Reordered(b) == IF b = NoBlock THEN b ELSE [b EXCEPT !.attrs = Reverse(@)]

\* the content with the attributes of every block in the opposite order
RECURSIVE ReorderedAll(_)
ReorderedAll(blocks) ==
    IF blocks = <<>> THEN <<>>
    ELSE <<Reordered(Head(blocks))>> \o ReorderedAll(Tail(blocks))

ReorderedSource(s) ==
    [rev |-> s.rev,
     script |-> Reordered(s.script),
     scriptSetup |-> Reordered(s.scriptSetup),
     template |-> Reordered(s.template),
     styles |-> ReorderedAll(s.styles),
     customBlocks |-> ReorderedAll(s.customBlocks),
     errors |-> s.errors]

\* a content whose blocks have two attributes each
TwoAttrSource ==
    [rev |-> 0,
     script |-> BaseSource.script,
     scriptSetup |-> BaseSource.scriptSetup,
     template |-> Blk("template", "<p/>", << <<"lang", "pug">>, <<"functional", AttrTrue>> >>),
     styles |-> << Blk("style", "a{}", << <<"lang", "scss">>, <<"scoped", AttrTrue>> >>) >>,
     customBlocks |-> << Blk("i18n", "{}", << <<"locale", "en">>, <<"global", AttrTrue>> >>) >>,
     errors |-> <<>>]

\* style texts that bind component state with v-bind()
VarTexts ==
    {"a{color:v-bind(a);width:v-bind(bc)}",
     "a{color:v-bind(ab);width:v-bind(c)}",
     "a{color:v-bind(bc);width:v-bind(a)}"}

\* a content with one style block of the given text
VarsSource(text) ==
    [rev |-> 0,
     script |-> BaseSource.script,
     scriptSetup |-> BaseSource.scriptSetup,
     template |-> BaseSource.template,
     styles |-> << Blk("style", text, <<>>) >>,
     customBlocks |-> BaseSource.customBlocks,
     errors |-> <<>>]

DiffSources ==
    {BaseSource, TwoAttrSource, ReorderedSource(BaseSource), ReorderedSource(TwoAttrSource)}
    \cup {VarsSource(t) : t \in VarTexts}

\* the inputs of one comparison of two blocks
BlockInputs == {[op |-> "blocks", a |-> a, b |-> b] : a \in Blocks, b \in Blocks}

\* the inputs of one run of the rules of handleHotUpdate: two contents, the
\* live modules, and whether a script was resolved for the previous one
DiffInputs ==
    {[op |-> "descriptors", prev |-> s, descriptor |-> t, modules |-> m, resolved |-> c] :
        s \in DiffSources, t \in DiffSources, m \in ModuleLists, c \in BOOLEAN}

\* the attributes of the style blocks whose addresses are emitted
EncAttrs ==
    { << >>,
      << <<"scoped", AttrTrue>> >>,
      << <<"lang", "scss">> >>,
      << <<"lang", "scss">>, <<"scoped", AttrTrue>> >>,
      << <<"module", AttrTrue>> >>,
      << <<"lang", "less">>, <<"module", "classes">> >>,
      << <<"src", "./a.css">> >>,
      << <<"data-x", "a&direct">> >>,
      << <<"direct", AttrTrue>> >>,
      << <<"lang", AttrTrue>> >> }

\* a content with three style blocks and two custom blocks
EncSource(x, y) ==
    [rev |-> 0,
     script |-> BaseSource.script,
     scriptSetup |-> BaseSource.scriptSetup,
     template |-> BaseSource.template,
     styles |-> << Blk("style", "a{}", <<>>), Blk("style", "a{}", x), Blk("style", "a{}", y) >>,
     customBlocks |-> << Blk("i18n", "{}", <<>>),
                         Blk("docs", "#", << <<"lang", "md">> >>) >>,
     errors |-> <<>>]

\* the inputs of one main transform: the content and asCustomElement
EncodeInputs ==
    {[op |-> "content", source |-> EncSource(x, y), asCustomElement |-> c] :
        x \in EncAttrs, y \in EncAttrs, c \in BOOLEAN}

\* live modules of a component with many style and custom blocks, one of
\* them a <scripts> custom block; the addresses are those genStyleCode and
\* genCustomBlockCode write
Style10Url == "/src/A.vue?vue&type=style&index=10&lang.css"
I18n1Url == "/src/A.vue?vue&type=i18n&index=1&lang.i18n"
I18n12Url == "/src/A.vue?vue&type=i18n&index=12&lang.i18n"
Scripts0Url == "/src/A.vue?vue&type=scripts&index=0&lang.scripts"

LookupUrls ==
    {MainUrl, TemplateUrl, ScriptUrl, Style1Url, Style10Url, I18n1Url, I18n12Url,
     Scripts0Url}

\* the lists of at most two of these modules, in either order
LookupInputs ==
    {[op |-> "modules", modules |-> l] :
        l \in {<<>>} \cup {<<Mod(u, <<>>)>> : u \in LookupUrls}
              \cup {<<Mod(u, <<>>), Mod(v, <<>>)>> : u \in LookupUrls, v \in LookupUrls}}

InitBlocks ==
    /\ cache = EmptyMap
    /\ hmrCache = EmptyMap
    /\ prevCache = EmptyMap
    /\ clientCache = {}
    /\ options = [root |-> "/src", isProduction |-> FALSE]
    /\ typeDepToSFCMap = {}
    /\ calls = [k \in CallIds |-> NoCall]
    /\ edited = [f \in Files |-> NoFile]
    /\ disk = [f \in Files |-> BaseSource]
    /\ pend = [f \in Files |-> "off"]
    /\ budget = 0
    /\ ev \in BlockInputs \cup DiffInputs \cup EncodeInputs \cup LookupInputs

\* isEqualBlock(a, b)
BCompare ==
    /\ ev.op = "blocks"
    /\ ev' = [op |-> "isEqualBlock", a |-> ev.a, b |-> ev.b, ret |-> isEqualBlock(ev.a, ev.b)]
    /\ UNCHANGED <<cache, hmrCache, prevCache, clientCache, options, typeDepToSFCMap, disk,
                   calls, edited, pend, budget>>

Diffed(p, n, modules, cc) ==
    /\ ev' = [op |-> "classify", prev |-> p, descriptor |-> n, modules |-> modules,
              resolved |-> cc # {}, out |-> Classify(cc, p, n, modules)]
    /\ UNCHANGED <<cache, hmrCache, prevCache, clientCache, options, typeDepToSFCMap, disk,
                   calls, edited, pend, budget>>

\* the rules of handleHotUpdate on the descriptors of two contents, with or
\* without a script resolved for the previous one
BClassify ==
    /\ ev.op = "descriptors"
    /\ Diffed(Parse(ev.prev, HotFile).descriptor, Parse(ev.descriptor, HotFile).descriptor,
              ev.modules,
              IF ev.resolved THEN resolveScript({}, Parse(ev.prev, HotFile).descriptor)
              ELSE {})

\* the modules the imports of the main module of d make live, after the
\* main module itself
Imported(styles, customs) ==
    << Mod(HotFile, <<>>) >>
    \o [i \in 1..Len(styles) |-> Mod(styles[i], <<>>)]
    \o [i \in 1..Len(customs) |-> Mod(customs[i], <<>>)]

Encoded(d, asCustomElement, styles, customs) ==
    /\ ev' = [op |-> "imports", descriptor |-> d, asCustomElement |-> asCustomElement,
              thrown |-> asCustomElement
                         /\ \E i \in 1..Len(d.styles) : HasAttr(d.styles[i], "module"),
              styles |-> styles, customs |-> customs,
              modules |-> Imported(styles, customs)]
    /\ UNCHANGED <<cache, hmrCache, prevCache, clientCache, options, typeDepToSFCMap, disk,
                   calls, edited, pend, budget>>

Addressed(d, asCustomElement) ==
    Encoded(d, asCustomElement,
            [i \in 1..Len(d.styles) |-> genStyleRequest(d, i - 1, asCustomElement)],
            [i \in 1..Len(d.customBlocks) |-> genCustomRequest(d, i - 1)])

\* genStyleCode and genCustomBlockCode of the main transform of a content:
\* the addresses imported for its style and custom blocks
BEncode ==
    /\ ev.op = "content"
    /\ Addressed(createDescriptor(Caches, options, HotFile, ev.source, FALSE).descriptor,
                 ev.asCustomElement)

\* getMainModule(modules)
BMain ==
    /\ ev.op = "modules"
    /\ ev' = [op |-> "getMainModule", modules |-> ev.modules,
              ret |-> getMainModule(ev.modules)]
    /\ UNCHANGED <<cache, hmrCache, prevCache, clientCache, options, typeDepToSFCMap, disk,
                   calls, edited, pend, budget>>

\* the lookups of handleHotUpdate for the changed style block of index i
\* (a plain <style>) and for the changed custom block of index i (<i18n>)
BFind ==
    /\ ev.op = "modules"
    /\ \E i \in {0, 1} :
          ev' = [op |-> "find", modules |-> ev.modules, i |-> i,
                 style |-> FindStyleModule(ev.modules, i, Blk("style", "a{}", <<>>)),
                 custom |-> FindCustomModule(ev.modules, i, Blk("i18n", "{}", <<>>))]
    /\ UNCHANGED <<cache, hmrCache, prevCache, clientCache, options, typeDepToSFCMap, disk,
                   calls, edited, pend, budget>>

NextBlocks ==
    \/ BCompare
    \/ BClassify
    \/ BEncode
    \/ BMain
    \/ BFind

SpecBlocks == InitBlocks /\ [][NextBlocks]_vars

(* The external files of src blocks: the main transform of a component
   creates its descriptor, links the src of its blocks to it and imports
   their addresses; a request for such an address looks its owner up. *)

\* a component whose four kinds of block are taken from external files,
\* the scoped style block and the custom block from the same one
LinkedSource ==
    [rev |-> 0,
     script |-> Blk("script", "", << <<"src", "./a.js">> >>),
     scriptSetup |-> NoBlock,
     template |-> Blk("template", "", << <<"src", "./t.html">> >>),
     styles |-> << Blk("style", "", << <<"src", "./a.css">>, <<"scoped", AttrTrue>> >>) >>,
     customBlocks |-> << Blk("i18n", "", << <<"src", "./a.css">> >>) >>,
     errors |-> <<>>]

\* the links the main transform makes for a descriptor: the src, the scoped
\* flag passed with it, and the request imported for the block
LinkSites(d) ==
    {[src |-> BlockSrc(d.styles[i + 1]), scoped |-> BlockScoped(d.styles[i + 1]),
      request |-> genStyleRequest(d, i, FALSE)] :
        i \in {j \in 0..(Len(d.styles) - 1) : Truthy(BlockSrc(d.styles[j + 1]))}}
    \cup {[src |-> BlockSrc(d.customBlocks[i + 1]), scoped |-> FALSE,
           request |-> genCustomRequest(d, i)] :
        i \in {j \in 0..(Len(d.customBlocks) - 1) : Truthy(BlockSrc(d.customBlocks[j + 1]))}}
    \cup {[src |-> BlockSrc(b), scoped |-> FALSE, request |-> genScriptRequest(d)] :
        b \in {x \in {d.script} : x # NoBlock /\ Truthy(BlockSrc(x))}}
    \cup {[src |-> BlockSrc(b), scoped |-> AnyScoped(d.styles),
           request |-> genTemplateRequest(d)] :
        b \in {x \in {d.template} : x # NoBlock /\ Truthy(BlockSrc(x))}}

\* what pluginContext.resolve gives for a src of a component in /src: the
\* style sheet is found with a version query, the markup file is not
\* found, any other file is found
Resolve(src) ==
    IF src = "./a.css" THEN "/src/a.css?v=1"
    ELSE IF src = "./t.html" THEN Absent
    ELSE "/src" \o SubSeq(src, 2, Len(src))

InitSrc ==
    /\ InitProgram
    /\ disk = [f \in Files |-> LinkedSource]
    /\ pend = [f \in Files |-> {}]
    /\ budget = MaxLinks

\* the main transform of f as far as createDescriptor
LCreate ==
    \E f \in Files :
        /\ CreateDescriptor(f, disk[f], FALSE)
        /\ UNCHANGED <<edited, pend, budget>>

\* the link of one block and the import of its address, which the host
\* resolves to the file the resolver found
Linked(f, d, site, resolved, path) ==
    /\ cache' = linkSrcToDescriptor(cache, site.src, d, resolved, site.scoped)
    /\ pend' = [pend EXCEPT ![f] = @ \cup {path \o "?" \o RawQuery(site.request)}]
    /\ ev' = [op |-> "linkSrcToDescriptor", src |-> site.src, descriptor |-> d,
              resolved |-> resolved, scoped |-> site.scoped, request |-> site.request]
    /\ budget' = budget - 1
    /\ UNCHANGED <<hmrCache, prevCache, clientCache, options, typeDepToSFCMap, disk, calls, edited>>

\* one linkSrcToDescriptor of the main transform of f
LLink ==
    \E f \in Files :
        /\ budget > 0
        /\ cache[f] # NoDescriptor
        /\ \E site \in LinkSites(cache[f]) :
                Linked(f, cache[f], site, Resolve(site.src),
                       StripQuery(IF Truthy(Resolve(site.src)) THEN Resolve(site.src)
                                  ELSE site.src))

\* getSrcDescriptor for a request of an external file
LGet ==
    \E filename \in {"/src/a.css", "./a.css"}, scoped \in BOOLEAN,
       src \in {"true"} \cup {ToString(cache[f].id) : f \in {g \in Files : cache[g] # NoDescriptor}} :
        /\ ev' = [op |-> "getSrcDescriptor", filename |-> filename, scoped |-> scoped,
                  src |-> src,
                  ret |-> getSrcDescriptor(cache, filename, [scoped |-> scoped, src |-> src])]
        /\ UNCHANGED <<cache, hmrCache, prevCache, clientCache, options, typeDepToSFCMap, disk,
                       calls, edited, pend, budget>>

Requested(f, id, parsed) ==
    /\ Truthy(parsed.query.src)
    /\ ev' = [op |-> "transform", owner |-> f, id |-> id, filename |-> parsed.filename,
              query |-> parsed.query,
              ret |-> getSrcDescriptor(cache, parsed.filename, parsed.query)]
    /\ UNCHANGED <<cache, hmrCache, prevCache, clientCache, options, typeDepToSFCMap, disk,
                   calls, edited, pend, budget>>

\* transform of a sub block request with query.src: one of the addresses
\* the main module of f imports is requested
LRequest ==
    \E f \in Files : \E id \in pend[f] : Requested(f, id, parseVueRequest(id))

\* the watcher's unlink event for an external file: the compiler's type
\* cache is told, the descriptor caches are not touched
LUnlink ==
    \E file \in {"/src/a.css", "/src/t.html"} :
        /\ ev' = [op |-> "unlink", file |-> file]
        /\ UNCHANGED <<cache, hmrCache, prevCache, clientCache, options, typeDepToSFCMap, disk,
                       calls, edited, pend, budget>>

NextSrc ==
    \/ LCreate
    \/ LLink
    \/ LGet
    \/ LRequest
    \/ LUnlink

SpecSrc == InitSrc /\ [][NextSrc]_vars

(* createDescriptor on its own, in a development and in a production
   build: any content of any file, into cache or into hmrCache. *)

InitId ==
    /\ cache = EmptyMap
    /\ hmrCache = EmptyMap
    /\ prevCache = EmptyMap
    /\ clientCache = {}
    /\ options \in {[root |-> "/src", isProduction |-> p] : p \in BOOLEAN}
    /\ typeDepToSFCMap = {}
    /\ calls = [k \in CallIds |-> NoCall]
    /\ edited = [f \in Files |-> NoFile]
    /\ disk = [f \in Files |-> BaseSource]
    /\ pend = [f \in Files |-> "off"]
    /\ budget = 0
    /\ ev = Event("init", "")

ICreate ==
    \E f \in Files, s \in FreeSources, hmr \in BOOLEAN :
        /\ CreateDescriptor(f, s, hmr)
        /\ UNCHANGED <<edited, pend, budget>>

NextId == ICreate

SpecId == InitId /\ [][NextId]_vars

(* The source map of the main module (part_001 lines 192-232).  A map is
   the set of its decoded mappings; a mapping without a source has no
   original position. *)

NoMap == [undefined |-> TRUE]
NoSource == "null"
SourceMap(mappings) == [mappings |-> mappings]

\* scriptCode.match(/\r?\n/g)?.length ?? 0
LineBreaks(code) == Cardinality({i \in 1..Len(code) : Char(code, i) = "\n"})

\* addMapping(gen, ...) for a mapping of the template map: the name is not
\* passed on
Shifted(m, offset) ==
    [source |-> m.source, originalLine |-> m.originalLine,
     originalColumn |-> m.originalColumn,
     generatedLine |-> m.generatedLine + offset,
     generatedColumn |-> m.generatedColumn, name |-> NoSource]

\* lines 203-215 with offset = the number of line breaks
ConcatMaps_NoExtraLine(scriptMap, templateMap, scriptCode) ==
    SourceMap(scriptMap.mappings
              \cup {Shifted(m, LineBreaks(scriptCode)) :
                       m \in {x \in templateMap.mappings : x.source # NoSource}})

\* lines 203-215: the mappings of the script map and those of the template
\* map moved down by offset
ConcatMaps(scriptMap, templateMap, scriptCode) ==
    SourceMap(scriptMap.mappings
              \cup {Shifted(m, LineBreaks(scriptCode) + 1) :
                       m \in {x \in templateMap.mappings : x.source # NoSource}})

\* resolvedMap of transformMain
ResolvedMap(sourceMap, scriptMap, templateMap, scriptCode) ==
    IF ~sourceMap THEN NoMap
    ELSE IF scriptMap # NoMap /\ templateMap # NoMap
         THEN ConcatMaps(scriptMap, templateMap, scriptCode)
    ELSE IF scriptMap # NoMap THEN scriptMap
    ELSE templateMap

\* the mappings a template map of the model is made of
TemplateMappings ==
    {[source |-> src, originalLine |-> g + 2, originalColumn |-> 4,
      generatedLine |-> g, generatedColumn |-> c, name |-> "msg"] :
        src \in {"A.vue", NoSource}, g \in 1..MaxMapLine, c \in 0..MaxMapColumn}

TemplateMaps ==
    {NoMap} \cup {SourceMap({a, b}) : a \in TemplateMappings, b \in TemplateMappings}

ScriptMaps ==
    {NoMap, SourceMap({}),
     SourceMap({[source |-> "A.vue", originalLine |-> 1, originalColumn |-> 0,
                 generatedLine |-> 1, generatedColumn |-> 0, name |-> NoSource]})}

ScriptCodes == {"", "a", "a\nb", "a\r\nb\nc\n", "a\n\n\n\nb", "a\rb"}

InitMap ==
    /\ cache = EmptyMap
    /\ hmrCache = EmptyMap
    /\ prevCache = EmptyMap
    /\ clientCache = {}
    /\ options = [root |-> "/src", isProduction |-> FALSE]
    /\ typeDepToSFCMap = {}
    /\ calls = [k \in CallIds |-> NoCall]
    /\ edited = [f \in Files |-> NoFile]
    /\ disk = [f \in Files |-> BaseSource]
    /\ pend = [f \in Files |-> "off"]
    /\ budget = 0
    /\ ev \in {[op |-> "compiled", sourceMap |-> o, scriptMap |-> sm, templateMap |-> tm,
                 scriptCode |-> code] :
                   o \in BOOLEAN, sm \in ScriptMaps, tm \in TemplateMaps,
                   code \in ScriptCodes}

\* lines 192-232 of transformMain
MMerge ==
    /\ ev.op = "compiled"
    /\ ev' = [op |-> "resolvedMap", sourceMap |-> ev.sourceMap, scriptMap |-> ev.scriptMap,
              templateMap |-> ev.templateMap, scriptCode |-> ev.scriptCode,
              ret |-> ResolvedMap(ev.sourceMap, ev.scriptMap, ev.templateMap,
                                  ev.scriptCode)]
    /\ UNCHANGED <<cache, hmrCache, prevCache, clientCache, options, typeDepToSFCMap, disk,
                   calls, edited, pend, budget>>

NextMap == MMerge

SpecMap == InitMap /\ [][NextMap]_vars

----------------------------------------------------------------------------
(* Properties *)

\* C1 (SpecSerial): when every edit of a file is processed as handleHotUpdate
\* followed by the main transform of the new content, the prevCache entry
\* the main transform reads is the descriptor of the content that was live
\* immediately before that edit, never that of an older edit.
C1_PrevIsContentBeforeEdit ==
    (ev.op = "transformMain" /\ ev.prev # NoDescriptor)
        => ev.prev.source = edited[ev.file]

\* C2 (Spec): invalidateDescriptor(f, hmr) moves the entry of the selected
\* map (cache, or hmrCache when hmr) to prevCache and deletes it, leaving
\* the other map alone; when the selected map has no entry for f, the three
\* maps stay as they are.
C2_InvalidateMovesEntry ==
    [][ev'.op = "invalidateDescriptor" =>
        LET f == ev'.file
        IN IF ev'.hmr
           THEN /\ cache' = cache
                /\ IF hmrCache[f] # NoDescriptor
                   THEN /\ prevCache' = [prevCache EXCEPT ![f] = hmrCache[f]]
                        /\ hmrCache' = [hmrCache EXCEPT ![f] = NoDescriptor]
                   ELSE hmrCache' = hmrCache /\ prevCache' = prevCache
           ELSE /\ hmrCache' = hmrCache
                /\ IF cache[f] # NoDescriptor
                   THEN /\ prevCache' = [prevCache EXCEPT ![f] = cache[f]]
                        /\ cache' = [cache EXCEPT ![f] = NoDescriptor]
                   ELSE cache' = cache /\ prevCache' = prevCache]_vars

\* an hmrCache entry has been moved to prevCache while cache kept its own
C2_Witness ==
    /\ ev.op = "invalidateDescriptor"
    /\ ev.hmr
    /\ hmrCache[ev.file] = NoDescriptor
    /\ prevCache[ev.file] # NoDescriptor
    /\ cache[ev.file] # NoDescriptor
    /\ cache[ev.file] # prevCache[ev.file]

\* a handleHotUpdate call that read the new content and ran the classifier
HotUpdateDone(e) == e.op = "handleHotUpdate" /\ e.resumed /\ e.out # NoOut

MarkupChanged(p, n) == ~isEqualBlock(n.template, p.template)

StyleChangedAt(p, n, i) ==
    At(p.styles, i) = NoBlock \/ ~isEqualBlock(At(p.styles, i), At(n.styles, i))

StyleChangedOrAdded(p, n) ==
    \E i \in 0..(Len(n.styles) - 1) : StyleChangedAt(p, n, i)

CustomChangedAt(p, n, i) ==
    At(p.customBlocks, i) = NoBlock
    \/ ~isEqualBlock(At(p.customBlocks, i), At(n.customBlocks, i))

C4_NoEntryNoChange ==
    [][(HotUpdateDone(ev') /\ ev'.out.affected = <<>>) =>
          cache' = cache /\ hmrCache' = hmrCache /\ prevCache' = prevCache]_vars

\* C4 (SpecHot), amended: when no rule of handleHotUpdate adds an entry,
\* cache and prevCache are what they were before the call, and hmrCache
\* differs at most at the file, where it holds the descriptor of the content
\* read (the old entry again when the content is the one it was parsed from).
C4_NoEntryOnlyHmrEntryReplaced ==
    [][(HotUpdateDone(ev') /\ ev'.out.affected = <<>>) =>
          /\ cache' = cache
          /\ prevCache' = prevCache
          /\ hmrCache' = [hmrCache EXCEPT ![ev'.file] = ev'.descriptor]
          /\ ev'.descriptor.source = disk[ev'.file]
          /\ (disk[ev'.file] = hmrCache[ev'.file].source => hmrCache' = hmrCache)]_vars

\* no rule added an entry, yet hmrCache holds a descriptor other than the
\* one the call compared against
C4_Witness ==
    /\ HotUpdateDone(ev)
    /\ ev.out.affected = <<>>
    /\ ev.descriptor # ev.prev
    /\ hmrCache[ev.file] = ev.descriptor
    /\ cache[ev.file] # NoDescriptor
    /\ cache[ev.file] # hmrCache[ev.file]

\* a changed block whose module is looked up among the live modules and not
\* found: the template, a style block, a custom block
LookupFailed(p, n, modules) ==
    \/ MarkupChanged(p, n) /\ getTemplateModule(modules) = 0
    \/ \E i \in 0..(Len(n.styles) - 1) :
          StyleChangedAt(p, n, i) /\ FindStyleModule(modules, i, At(n.styles, i)) = 0
    \/ /\ Len(p.customBlocks) = Len(n.customBlocks)
       /\ \E i \in 0..(Len(n.customBlocks) - 1) :
             /\ CustomChangedAt(p, n, i)
             /\ FindCustomModule(modules, i, At(p.customBlocks, i)) = 0

MainIn(e) == HasUrl(e.out.result, UrlAt(e.modules, getMainModule(e.modules)))

\* C5 as stated: for every list of live modules, after a failed lookup the
\* main module is in the returned list, which is therefore not empty.
C5_MainAfterFailedLookup ==
    (HotUpdateDone(ev) /\ LookupFailed(ev.prev, ev.descriptor, ev.modules))
        => MainIn(ev) /\ ev.out.result # <<>>

\* C5 (SpecHot), amended: for every list of live modules in which
\* getMainModule finds a module, after a failed lookup that module is in the
\* returned list.
C5_MainAfterFailedLookupIfListed ==
    (/\ HotUpdateDone(ev)
     /\ getMainModule(ev.modules) # 0
     /\ LookupFailed(ev.prev, ev.descriptor, ev.modules))
        => MainIn(ev)

\* a custom block changed, no module of it is live, and the main module is
\* the one returned
C5_Witness ==
    /\ HotUpdateDone(ev)
    /\ getMainModule(ev.modules) # 0
    /\ ~MarkupChanged(ev.prev, ev.descriptor)
    /\ ~StyleChangedOrAdded(ev.prev, ev.descriptor)
    /\ LookupFailed(ev.prev, ev.descriptor, ev.modules)
    /\ ev.out.result = <<UrlAt(ev.modules, getMainModule(ev.modules))>>

SameCaches == cache' = cache /\ hmrCache' = hmrCache /\ prevCache' = prevCache

\* the call of getDescriptor found no entry in the map it selects
Uncached(e) == (IF e.hmr THEN hmrCache[e.file] ELSE cache[e.file]) = NoDescriptor

\* C6 (Spec): handleHotUpdate on a file without an hmrCache entry returns
\* undefined at once, without reading the content, and leaves cache,
\* hmrCache and prevCache as they were; getDescriptor with createIfNotFound
\* false never reads the file and never creates an entry.
C6_UnobservedFileIsNoOp ==
    [][/\ (/\ ev'.op \in {"handleHotUpdate", "handleHotUpdate.await"}
           /\ ~ev'.resumed
           /\ hmrCache[ev'.file] = NoDescriptor)
          => /\ ev'.op = "handleHotUpdate"
             /\ ~ev'.read
             /\ ev'.thrown = "none"
             /\ ev'.out = NoOut
             /\ calls' = calls
             /\ SameCaches
       /\ (ev'.op = "getDescriptor" /\ ~ev'.create)
          => ~ev'.read /\ ev'.thrown = "none" /\ SameCaches]_vars

\* handleHotUpdate returned at once for a file that is on disk and in cache
\* but not in hmrCache
C6_Witness ==
    /\ ev.op = "handleHotUpdate"
    /\ ~ev.resumed
    /\ ~ev.read
    /\ hmrCache[ev.file] = NoDescriptor
    /\ cache[ev.file] # NoDescriptor
    /\ disk[ev.file] # NoFile
    /\ \A k \in CallIds : calls[k] = NoCall

\* C7 as stated: getDescriptor with createIfNotFound on an uncached file
\* whose content parses with errors returns the descriptor and does not
\* throw, whatever hmr is; it throws only when the file cannot be read.
C7_ParseErrorsNeverThrow ==
    [][(ev'.op = "getDescriptor" /\ ev'.create /\ Uncached(ev')) =>
          IF disk[ev'.file] = NoFile
          THEN ev'.thrown = "read"
          ELSE ev'.thrown = "none" /\ ev'.ret # NoDescriptor]_vars

\* C7 (Spec), amended: getDescriptor with createIfNotFound on an uncached
\* file whose content parses with errors returns the descriptor without
\* throwing when hmr is true and throws the first parse error when hmr is
\* false; a file that cannot be read makes it throw for both.
C7_ParseErrorsThrowUnlessHmr ==
    [][(ev'.op = "getDescriptor" /\ ev'.create /\ Uncached(ev')) =>
          IF disk[ev'.file] = NoFile
          THEN ev'.thrown = "read" /\ ev'.ret = NoDescriptor
          ELSE IF Parse(disk[ev'.file], ev'.file).errors # <<>> /\ ~ev'.hmr
          THEN ev'.thrown = "parse" /\ ev'.ret = NoDescriptor
          ELSE /\ ev'.thrown = "none"
               /\ ev'.ret # NoDescriptor
               /\ ev'.ret.source = disk[ev'.file]]_vars

\* a content with a parse error was read for hmr and its descriptor returned
C7_Witness ==
    /\ ev.op = "getDescriptor"
    /\ ev.create
    /\ ev.hmr
    /\ ev.read
    /\ ev.thrown = "none"
    /\ ev.ret # NoDescriptor
    /\ Parse(ev.ret.source, ev.file).errors # <<>>
    /\ hmrCache[ev.file] = ev.ret

\* C8 (Spec): whenever getDescriptor with createIfNotFound throws, cache,
\* hmrCache and prevCache are what they were before the call.
C8_FailedGetStoresNothing ==
    [][(ev'.op = "getDescriptor" /\ ev'.create /\ ev'.thrown # "none")
          => SameCaches]_vars

\* a createDescriptor call into cache: direct, or the one of transformMain
CreatedInCache(e) ==
    (e.op = "createDescriptor" /\ ~e.hmr) \/ e.op = "transformMain"

\* C9 as stated: a createDescriptor call whose parse reports errors returns
\* them without throwing and neither creates nor replaces the cache entry
\* of the file.
C9_ErrorsKeepCacheEntry ==
    [][(CreatedInCache(ev') /\ ev'.errors # <<>>) =>
          cache'[ev'.file] = cache[ev'.file]]_vars

\* C9 (Spec), amended: a createDescriptor call (direct or from transformMain)
\* returns the errors of the parse without throwing and stores the
\* descriptor it parsed as the cache entry of the file, with errors as
\* without; cache holds the most recent parse, successful or not.
C9_CacheHoldsLastParse ==
    [][CreatedInCache(ev') =>
          /\ ev'.descriptor # NoDescriptor
          /\ cache' = [cache EXCEPT ![ev'.file] = ev'.descriptor]
          /\ ev'.errors = Parse(ev'.descriptor.source, ev'.file).errors
          /\ (ev'.op = "createDescriptor"
                 => ev'.thrown = "none" /\ ev'.ret = ev'.descriptor)]_vars

\* createDescriptor returned errors and the descriptor is the cache entry
C9_Witness ==
    /\ ev.op = "createDescriptor"
    /\ ~ev.hmr
    /\ ev.errors # <<>>
    /\ ev.thrown = "none"
    /\ cache[ev.file] = ev.ret
    /\ prevCache[ev.file] # NoDescriptor
    /\ prevCache[ev.file] # cache[ev.file]

\* C10 (Spec): a step of an operation on one file leaves the cache, hmrCache
\* and prevCache entries of every other file as they were, however the
\* operations on the files interleave.
C10_OtherFilesUntouched ==
    [][\A g \in Files :
          g # ev'.file =>
             /\ cache'[g] = cache[g]
             /\ hmrCache'[g] = hmrCache[g]
             /\ prevCache'[g] = prevCache[g]]_vars

\* a descriptor of one file was created while handleHotUpdate of the other
\* file waits for its content, and the other file's entry is in place
C10_Witness ==
    /\ ev.op = "createDescriptor"
    /\ cache[ev.file] = ev.ret
    /\ \E k \in CallIds :
          /\ calls[k] # NoCall
          /\ calls[k].file # ev.file
          /\ hmrCache[calls[k].file] = calls[k].prevDescriptor

\* C11 (SpecSerial): when the host processes every edit event of a file to
\* the end (hot update, then the main transform of the new content) before
\* the next one begins, whenever prevCache and cache both hold a descriptor
\* of a file, the one in prevCache was parsed from an earlier save of the
\* file than the one in cache.
C11_PrevOlderThanCurrent ==
    \A f \in Files :
        (prevCache[f] # NoDescriptor /\ cache[f] # NoDescriptor)
            => prevCache[f].source.rev < cache[f].source.rev

\* after a third edit both entries are present, two saves apart
C11_Witness ==
    /\ ev.op = "transformMain"
    /\ prevCache[ev.file] # NoDescriptor
    /\ cache[ev.file] # NoDescriptor
    /\ cache[ev.file].source.rev = 3
    /\ prevCache[ev.file].source.rev = 1

\* a descriptor that is a <template> block and nothing else
MarkupOnly(d) ==
    /\ d.script = NoBlock
    /\ d.scriptSetup = NoBlock
    /\ d.template # NoBlock
    /\ d.styles = <<>>
    /\ d.customBlocks = <<>>

\* handleHotUpdate ran on an edit of the template text alone of a
\* template-only file, with a main module and a template module live
MarkupOnlyEdit(e) ==
    /\ HotUpdateDone(e)
    /\ MarkupOnly(e.prev)
    /\ MarkupOnly(e.descriptor)
    /\ e.prev.template.content # e.descriptor.template.content
    /\ e.prev.template.attrs = e.descriptor.template.attrs
    /\ getMainModule(e.modules) # 0
    /\ getTemplateModule(e.modules) # 0

MainOf(e) == e.modules[getMainModule(e.modules)]

TemplateOf(e) == e.modules[getTemplateModule(e.modules)]

\* C12 as stated: an edit of the template text alone of a template-only
\* file, with a main module and a template module live, returns the
\* template module and nothing else, with update type template.
C12_MarkupEditReturnsOnlyMarkup ==
    MarkupOnlyEdit(ev) =>
        /\ ev.out.result = <<TemplateOf(ev).url>>
        /\ ev.out.updateType = <<"template">>

\* C12 (SpecHot), amended: such an edit returns the template module first,
\* then exactly the importers of the main module that are CSS requests, and
\* never the main module; the update type is template.
C12_MarkupEditReturnsMarkupAndCssImporters ==
    MarkupOnlyEdit(ev) =>
        /\ ev.out.result # <<>>
        /\ ev.out.result[1] = TemplateOf(ev).url
        /\ ~HasUrl(ev.out.result, MainOf(ev).url)
        /\ \A i \in 2..Len(ev.out.result) :
              /\ HasUrl(MainOf(ev).importers, ev.out.result[i])
              /\ isCSSRequest(ev.out.result[i])
        /\ \A i \in 1..Len(MainOf(ev).importers) :
              isCSSRequest(MainOf(ev).importers[i])
                  => HasUrl(ev.out.result, MainOf(ev).importers[i])
        /\ ev.out.updateType = <<"template">>

\* the main module is imported by a stylesheet, which is returned after the
\* template module
C12_Witness ==
    /\ MarkupOnlyEdit(ev)
    /\ ev.out.result = <<TemplateUrl, CssImporter>>
    /\ HasUrl(MainOf(ev).importers, JsImporter)

\* the blocks other than the styles are the same in both descriptors
SameButStyles(p, n) ==
    /\ p.script = n.script
    /\ p.scriptSetup = n.scriptSetup
    /\ p.template = n.template
    /\ p.customBlocks = n.customBlocks

\* handleHotUpdate ran on an edit that added `scoped` to the file's single
\* style block and changed nothing else
ScopedAdded(e) ==
    /\ HotUpdateDone(e)
    /\ SameButStyles(e.prev, e.descriptor)
    /\ Len(e.prev.styles) = 1
    /\ Len(e.descriptor.styles) = 1
    /\ ~BlockScoped(e.prev.styles[1])
    /\ e.descriptor.styles[1] =
          [e.prev.styles[1] EXCEPT !.attrs = Append(@, <<"scoped", AttrTrue>>)]

C14_StyleRemovedReturnsMain ==
    (/\ HotUpdateDone(ev)
     /\ Len(ev.prev.styles) > Len(ev.descriptor.styles)
     /\ getMainModule(ev.modules) # 0)
        => HasUrl(ev.out.result, MainOf(ev).url)

\* the second of two style blocks was deleted, the first is unchanged and
\* has a live module, and the main module is what is returned
C14_Witness ==
    /\ HotUpdateDone(ev)
    /\ Len(ev.prev.styles) = 2
    /\ ev.descriptor.styles = <<ev.prev.styles[1]>>
    /\ SameButStyles(ev.prev, ev.descriptor)
    /\ FindStyleModule(ev.modules, 0, ev.descriptor.styles[1]) # 0
    /\ ~ev.out.didUpdateStyle
    /\ ev.out.result = <<MainOf(ev).url>>

\* the script blocks are equal, a resolved import list exists for p in cc,
\* and n has no template or its reload predicate holds for that list
ImportsForceReload(cc, p, n) ==
    /\ isEqualBlock(p.script, n.script)
    /\ isEqualBlock(p.scriptSetup, n.scriptSetup)
    /\ HasResolvedScript(cc, p)
    /\ getResolvedScript(cc, p).hasImports
    /\ \/ n.template = NoBlock
       \/ shouldForceReload(n, getResolvedScript(cc, p).imports)

\* the module the script rule adds: the script module, else the main module
ScriptOrMainUrl(modules) ==
    IF getScriptModule(modules) # 0
    THEN modules[getScriptModule(modules)].url
    ELSE UrlAt(modules, getMainModule(modules))

\* C15 (SpecHot): handleHotUpdate takes the script as changed exactly when
\* the script blocks differ, or the script-setup blocks differ, or both are
\* equal and a resolved import list exists for the previous descriptor and
\* the new one has no template or its reload predicate holds for the list;
\* in the last case, with the template edited, the script module (the main
\* module without one) is returned as well as the template module.
C15_ScriptChangedByBlocksOrImports ==
    [][HotUpdateDone(ev') =>
          /\ ev'.out.scriptChanged =
                (\/ ~isEqualBlock(ev'.prev.script, ev'.descriptor.script)
                 \/ ~isEqualBlock(ev'.prev.scriptSetup, ev'.descriptor.scriptSetup)
                 \/ ImportsForceReload(clientCache, ev'.prev, ev'.descriptor))
          /\ (/\ ImportsForceReload(clientCache, ev'.prev, ev'.descriptor)
              /\ MarkupChanged(ev'.prev, ev'.descriptor))
             => /\ ScriptOrMainUrl(ev'.modules) # Absent
                     => HasUrl(ev'.out.result, ScriptOrMainUrl(ev'.modules))
                /\ getTemplateModule(ev'.modules) # 0
                     => HasUrl(ev'.out.result, TemplateOf(ev').url)]_vars

\* the <script setup> text is unchanged, the template now uses an import it
\* did not use when the script was compiled, and the script module is
\* returned with the template module
C15_Witness ==
    /\ HotUpdateDone(ev)
    /\ ev.prev.scriptSetup # NoBlock
    /\ ev.prev.scriptSetup = ev.descriptor.scriptSetup
    /\ ev.prev.script = ev.descriptor.script
    /\ ev.prev.template # NoBlock
    /\ ev.descriptor.template # NoBlock
    /\ ~IsImportUsed("Foo", ev.prev)
    /\ IsImportUsed("Foo", ev.descriptor)
    /\ ev.out.scriptChanged
    /\ ev.out.result = <<ScriptUrl, TemplateUrl>>

BothPresent(e) == e.op = "isEqualBlock" /\ e.a # NoBlock /\ e.b # NoBlock

\* the attributes of a block as a set of name-value pairs
AttrSet(b) == {b.attrs[i] : i \in 1..Len(b.attrs)}

\* the src a block declares, when it is a non-empty string
DeclaredSrc(b) ==
    IF \E i \in 1..Len(b.attrs) :
           b.attrs[i][1] = "src" /\ b.attrs[i][2] \notin {"", AttrTrue}
    THEN (CHOOSE p \in AttrSet(b) : p[1] = "src")[2]
    ELSE Absent

\* C16 (SpecBlocks): isEqualBlock is true of two present blocks that
\* declare the same non-empty src, whatever their content and their other
\* attributes; when the src of both is empty or absent there is no
\* shortcut: they are equal exactly when content and attributes are.
C16_SameSrcIsEqual ==
    BothPresent(ev) =>
        /\ (DeclaredSrc(ev.a) # Absent /\ DeclaredSrc(ev.a) = DeclaredSrc(ev.b))
              => ev.ret
        /\ (DeclaredSrc(ev.a) = Absent /\ DeclaredSrc(ev.b) = Absent)
              => ev.ret = (ev.a.content = ev.b.content /\ AttrSet(ev.a) = AttrSet(ev.b))

\* two blocks with the same src, different text and different attributes
\* were found equal
C16_Witness ==
    /\ BothPresent(ev)
    /\ DeclaredSrc(ev.a) = "./a.css"
    /\ DeclaredSrc(ev.b) = "./a.css"
    /\ ev.a.content # ev.b.content
    /\ Len(ev.a.attrs) # Len(ev.b.attrs)
    /\ ev.ret

\* the two blocks share a non-empty src
SharedSrc(a, b) == DeclaredSrc(a) # Absent /\ DeclaredSrc(a) = DeclaredSrc(b)

\* the new content is the previous one with the attributes of every block
\* written in the opposite order
AttrsReordered(e) ==
    /\ e.op = "classify"
    /\ e.descriptor.source = ReorderedSource(e.prev.source)

\* C17 (SpecBlocks): two present blocks without a shared src are equal
\* exactly when their contents are identical and their attributes are the
\* same set of name-value pairs, in whatever order they are written;
\* isEqualBlock gives the same answer with its arguments swapped; and a new
\* content that only reorders the attributes of the blocks makes
\* handleHotUpdate report nothing.
C17_AttrOrderIrrelevant ==
    /\ (BothPresent(ev) /\ ~SharedSrc(ev.a, ev.b))
          => ev.ret = (ev.a.content = ev.b.content /\ AttrSet(ev.a) = AttrSet(ev.b))
    /\ ev.op = "isEqualBlock" => ev.ret = isEqualBlock(ev.b, ev.a)
    /\ AttrsReordered(ev)
          => /\ ev.out.result = <<>>
             /\ ev.out.affected = <<>>
             /\ ev.out.updateType = <<>>
             /\ ~ev.out.scriptChanged
             /\ ~ev.out.invalidate

\* every block of the new content has its two attributes in the opposite
\* order, all the modules of the file are live, and nothing was reported
C17_Witness ==
    /\ AttrsReordered(ev)
    /\ ev.prev.source = TwoAttrSource
    /\ ev.descriptor.template.attrs # ev.prev.template.attrs
    /\ ev.descriptor.styles[1].attrs # ev.prev.styles[1].attrs
    /\ Len(ev.modules) = 4
    /\ ev.out.result = <<>>

\* C18 (SpecBlocks): the rules of handleHotUpdate take the CSS variable
\* names as changed exactly when the two ordered sequences of names are
\* unequal, and then the main module, when it is live, is in the result.
C18_CssVarsChangedIffSequencesDiffer ==
    ev.op = "classify" =>
        /\ ev.out.cssVarsChanged = (ev.prev.cssVars # ev.descriptor.cssVars)
        /\ (ev.prev.cssVars # ev.descriptor.cssVars /\ getMainModule(ev.modules) # 0)
              => MainIn(ev)

\* C19 (SpecHot): whatever the descriptor compared against, the new
\* descriptor and the live modules (lists without a main module or without
\* a template module included), the list handleHotUpdate returns holds no
\* module twice and no undefined entry.
C19_ResultHasNoDuplicateNoUndefined ==
    HotUpdateDone(ev) =>
        /\ \A i, j \in 1..Len(ev.out.result) :
              ev.out.result[i] = ev.out.result[j] => i = j
        /\ \A i \in 1..Len(ev.out.result) : ev.out.result[i] # Absent

\* the last scoped style block was removed with no template module live:
\* the scoped rule added undefined and the main module, the removed-style
\* rule added the main module again, and the main module alone is returned
C19_Witness ==
    /\ HotUpdateDone(ev)
    /\ ev.out.scopedChanged
    /\ ev.out.stylesRemoved
    /\ getTemplateModule(ev.modules) = 0
    /\ HasUrl(ev.out.affected, Absent)
    /\ ev.out.result = <<MainUrl>>

\* the paths under which an external file is linked and requested
LinkedPaths ==
    {"/src/a.css", "./a.css", "/src/t.html", "./t.html", "/src/a.js", "./a.js"}

\* the ids of the two components, in the text form a request carries
OwnerIds == {ToString(getHash(<<normalizedPath(options.root, f)>>)) : f \in Files}

\* the requests for external files: path, scoped flag and src marker
SrcQueries == LinkedPaths \X BOOLEAN \X OwnerIds

\* what getSrcDescriptor answers to request q when the map is m
Answer(m, q) == getSrcDescriptor(m, q[1], [scoped |-> q[2], src |-> q[3]])

\* C20 (SpecSrc): a link made with scoped = true by an owner changes the
\* answer of getSrcDescriptor only for scoped requests carrying that
\* owner's id, an unscoped link only for unscoped requests, and the changed
\* answers are the linked descriptor; the link is visible at once under
\* the linked path; so the scoped links of two owners with different ids to
\* one path, in either order, and an unscoped link to it, never overwrite
\* each other, and a scoped request with an owner's id gets a descriptor
\* of that id.
C20_ScopedLinksKeepOwners ==
    [][/\ ev'.op = "linkSrcToDescriptor" =>
            /\ \A q \in SrcQueries :
                  Answer(cache', q) # Answer(cache, q) =>
                      /\ q[2] = ev'.scoped
                      /\ q[2] => q[3] = ToString(ev'.descriptor.id)
                      /\ Answer(cache', q) = ev'.descriptor
            /\ \E path \in LinkedPaths :
                  Answer(cache', <<path, ev'.scoped, ToString(ev'.descriptor.id)>>)
                      = ev'.descriptor
       /\ (ev'.op = "getSrcDescriptor" /\ ev'.scoped /\ ev'.ret # NoDescriptor)
            => ToString(ev'.ret.id) = ev'.src]_vars

\* both components linked /src/a.css with scoped = true and one linked it
\* unscoped; the scoped request with the id of A.vue got the descriptor of
\* A.vue, and the one with the id of B.vue would get that of B.vue
C20_Witness ==
    /\ ev.op = "getSrcDescriptor"
    /\ ev.scoped
    /\ ev.filename = "/src/a.css"
    /\ cache["/src/A.vue"] # NoDescriptor
    /\ cache["/src/B.vue"] # NoDescriptor
    /\ ev.src = ToString(cache["/src/A.vue"].id)
    /\ ev.ret = cache["/src/A.vue"]
    /\ Answer(cache, <<"/src/a.css", TRUE, ToString(cache["/src/B.vue"].id)>>)
         = cache["/src/B.vue"]
    /\ Answer(cache, <<"/src/a.css", FALSE, "true">>) # NoDescriptor

\* C21 (SpecSrc): whenever an address the main transform of a component
\* imported for a src block is requested, parsing it and calling
\* getSrcDescriptor gives the descriptor of that component.
C21_AddressSelectsOwner ==
    ev.op = "transform" => ev.ret = cache[ev.owner]

\* the extension handleHotUpdate looks for: next.lang || 'css'
LangOrCss(style) == IF Truthy(BlockLang(style)) THEN BlockLang(style) ELSE "css"

\* C22 (SpecBlocks): for every style block of a compiled descriptor, the
\* address genStyleCode imports contains type=style&index=<i>, ends with
\* .<declared lang, else css> and is not a direct request, and the lookup
\* of handleHotUpdate for that block among the imported modules finds it;
\* every custom block address contains type=<type>&index=<i>.
C22_EncoderAndLookupAgree ==
    (ev.op = "imports" /\ ~ev.thrown) =>
        /\ \A i \in 0..(Len(ev.styles) - 1) :
              /\ Includes(ev.styles[i + 1], "type=style&index=" \o ToString(i))
              /\ EndsWith(ev.styles[i + 1], "." \o LangOrCss(ev.descriptor.styles[i + 1]))
              /\ ~directRequestRE(ev.styles[i + 1])
              /\ FindStyleModule(ev.modules, i, ev.descriptor.styles[i + 1]) # 0
              /\ UrlAt(ev.modules, FindStyleModule(ev.modules, i, ev.descriptor.styles[i + 1]))
                    = ev.styles[i + 1]
        /\ \A i \in 0..(Len(ev.customs) - 1) :
              Includes(ev.customs[i + 1],
                       "type=" \o ev.descriptor.customBlocks[i + 1].type
                       \o "&index=" \o ToString(i))

\* the descriptors of file f the two maps createDescriptor writes hold
CreatedOf(f) == {cache[f], hmrCache[f]} \ {NoDescriptor}

BothMaps(e) ==
    /\ e.op = "resolvedMap"
    /\ e.sourceMap
    /\ e.scriptMap # NoMap
    /\ e.templateMap # NoMap

\* C24 (SpecMap): when the script map and the template map both exist, for
\* every mapping of the template map with an original position the merged
\* map holds a mapping with the same source and original position at the
\* same generated column and at the generated line plus offset, offset
\* being the number of line breaks of the script code plus one; after a
\* script code with 4 line breaks such a mapping is on line 5 or below.
C24_TemplateMappingsShifted ==
    BothMaps(ev) =>
        \A m \in {x \in ev.templateMap.mappings : x.source # NoSource} :
            /\ \E r \in ev.ret.mappings :
                  /\ r.source = m.source
                  /\ r.originalLine = m.originalLine
                  /\ r.originalColumn = m.originalColumn
                  /\ r.generatedColumn = m.generatedColumn
                  /\ r.generatedLine = m.generatedLine + LineBreaks(ev.scriptCode) + 1
            /\ LineBreaks(ev.scriptCode) = 4 =>
                  \A r \in ev.ret.mappings \ ev.scriptMap.mappings : r.generatedLine >= 5

\* a script code with 4 line breaks and a template map of two mappings
\* with original positions: both are in the merged map, 5 lines down
C24_Witness ==
    /\ BothMaps(ev)
    /\ ev.scriptCode = "a\n\n\n\nb"
    /\ ev.scriptMap.mappings # {}
    /\ Cardinality({x \in ev.templateMap.mappings : x.source # NoSource}) = 2
    /\ Cardinality(ev.ret.mappings) = 3
    /\ \E r \in ev.ret.mappings : r.generatedLine = 7 /\ r.originalLine = 4

\* C25 (SpecSrc): after the unlink event of a file that is linked as the
\* external src of a component block, getSrcDescriptor for the deleted
\* path is absent, for the plain key and for every scoped path?src=id key.
C25_UnlinkEvictsSrcKeys ==
    ev.op = "unlink" =>
        \A scoped \in BOOLEAN, id \in OwnerIds :
            Answer(cache, <<ev.file, scoped, id>>) = NoDescriptor

\* the step is invalidateDescriptor(f), called by the host or at the end of
\* handleHotUpdate
InvalidatesCurrent(e, f) ==
    /\ e.file = f
    /\ \/ e.op = "invalidateDescriptor" /\ ~e.hmr
       \/ HotUpdateDone(e) /\ e.out.invalidate

\* C26 (Spec): an entry leaves cache only in a step of invalidateDescriptor
\* of that file (called directly or by handleHotUpdate), an entry leaves
\* hmrCache only in a direct invalidateDescriptor(f, true), which the plugin
\* never calls, and no step removes an entry of prevCache; handleHotUpdate
\* returns undefined at its lookup only when hmrCache has no entry for the
\* file, so once the entry is there the plugin's own steps keep it and
\* handleHotUpdate goes on to the classifier.
C26_EntriesLeaveOnlyByInvalidate ==
    [][/\ \A f \in Files :
            /\ (cache[f] # NoDescriptor /\ cache'[f] = NoDescriptor)
                  => InvalidatesCurrent(ev', f)
            /\ (hmrCache[f] # NoDescriptor /\ hmrCache'[f] = NoDescriptor)
                  => (ev'.op = "invalidateDescriptor" /\ ev'.hmr /\ ev'.file = f)
            /\ prevCache[f] # NoDescriptor => prevCache'[f] # NoDescriptor
       /\ (ev'.op = "handleHotUpdate" /\ ~ev'.resumed)
            => hmrCache[ev'.file] = NoDescriptor
       /\ ev'.op = "handleHotUpdate.await" => hmrCache[ev'.file] # NoDescriptor]_vars

\* handleHotUpdate ran to its end a second time for a file and invalidated:
\* the cache entry is gone, the hmrCache and prevCache entries are there
C26_Witness ==
    /\ HotUpdateDone(ev)
    /\ ev.out.invalidate
    /\ cache[ev.file] = NoDescriptor
    /\ hmrCache[ev.file] = ev.descriptor
    /\ prevCache[ev.file] # NoDescriptor
    /\ ev.prev # NoDescriptor
    /\ ev.prev # ev.descriptor

\* prevCache holds a descriptor of a later save of f than cache does
PrevNewer(p, c, f) ==
    /\ p[f] # NoDescriptor
    /\ c[f] # NoDescriptor
    /\ p[f].source.rev > c[f].source.rev

\* C27 (SpecRace): when the host does not serialize the main transform and
\* the hot updates of a file, a state is reached in which prevCache holds a
\* descriptor parsed from a newer content than the one in cache; the step
\* into such a state is a main transform of a code older than the file,
\* storing its descriptor after a newer one was moved to prevCache.
C27_StaleTransformAfterInvalidate ==
    [][\A f \in Files :
          (PrevNewer(prevCache', cache', f) /\ ~PrevNewer(prevCache, cache, f))
              => /\ ev'.op = "transformMain"
                 /\ ev'.file = f
                 /\ cache'[f] = ev'.descriptor
                 /\ ev'.descriptor.source.rev < disk[f].rev
                 /\ prevCache'[f] = prevCache[f]]_vars

\* the main transform of the first content has ended after the second
\* content was moved to prevCache
C27_Witness ==
    /\ ev.op = "transformMain"
    /\ PrevNewer(prevCache, cache, ev.file)
    /\ cache[ev.file] = ev.descriptor
    /\ cache[ev.file].source.rev = 0
    /\ prevCache[ev.file].source.rev = 1
    /\ disk[ev.file].rev = 2

\* the blocks other than the template are in descriptor d what they are in
\* the content s
RestUnchanged(s, d) ==
    /\ isEqualBlock(s.script, d.script)
    /\ isEqualBlock(s.scriptSetup, d.scriptSetup)
    /\ Len(s.styles) = Len(d.styles)
    /\ \A i \in 0..(Len(s.styles) - 1) : isEqualBlock(At(s.styles, i), At(d.styles, i))
    /\ AnyScoped(s.styles) = AnyScoped(d.styles)
    /\ Len(s.customBlocks) = Len(d.customBlocks)
    /\ \A i \in 0..(Len(s.customBlocks) - 1) :
          isEqualBlock(At(s.customBlocks, i), At(d.customBlocks, i))

\* C28 (SpecSerial): the main transform after an edit emits _rerender_only
\* only when, relative to the content that was live immediately before the
\* edit, the script blocks, every style block and every custom block are
\* unchanged.
C28_MarkerOnlyForTemplateEdits ==
    (ev.op = "transformMain" /\ ev.rerenderOnly)
        => RestUnchanged(edited[ev.file], ev.descriptor)

\* no rule but the script rule has anything to add
OnlyScriptRule(out) ==
    /\ out.scriptChanged
    /\ ~out.templateChanged
    /\ ~out.cssVarsChanged
    /\ ~out.scopedChanged
    /\ ~out.didUpdateStyle
    /\ ~out.stylesRemoved
    /\ ~out.customsChanged

\* C29 (SpecHot): when the script changed, the list handleHotUpdate returns
\* begins with the live script module (the first module whose url matches
\* type=script ... &lang.<ext> at its end) when there is one, and else with
\* the main module when one is live; when the script rule is the only one
\* that applies and a script module is live, the script module is all that
\* is returned, so a main module distinct from it is not.
C29_ScriptRuleAddsScriptElseMain ==
    (HotUpdateDone(ev) /\ ev.out.scriptChanged) =>
        /\ getScriptModule(ev.modules) # 0
              => /\ ev.out.result # <<>>
                 /\ ev.out.result[1] = ev.modules[getScriptModule(ev.modules)].url
                 /\ IsScriptUrl(ev.out.result[1])
                 /\ OnlyScriptRule(ev.out) => Len(ev.out.result) = 1
        /\ (getScriptModule(ev.modules) = 0 /\ getMainModule(ev.modules) # 0)
              => /\ ev.out.result # <<>>
                 /\ ev.out.result[1] = MainOf(ev).url
        /\ (getScriptModule(ev.modules) = 0 /\ getMainModule(ev.modules) = 0)
              => ~OnlyScriptRule(ev.out) \/ ev.out.result = <<>>

\* only the script changed, a script module and a main module of its own
\* are live, and the script module alone is returned
C29_Witness ==
    /\ HotUpdateDone(ev)
    /\ OnlyScriptRule(ev.out)
    /\ getScriptModule(ev.modules) # 0
    /\ getMainModule(ev.modules) # 0
    /\ MainOf(ev).url = MainUrl
    /\ ev.out.result = <<ScriptUrl>>

\* the module at position k is one the style lookup accepts for block i
StyleMatch(modules, k, i, style) ==
    /\ Includes(modules[k].url, "type=style&index=" \o ToString(i))
    /\ EndsWith(modules[k].url, "." \o LangOrCss(style))
    /\ ~directRequestRE(modules[k].url)

\* the first module the style lookup accepts for block i is at position k
FirstStyleMatch(modules, k, i, style) ==
    /\ StyleMatch(modules, k, i, style)
    /\ \A j \in 1..(k - 1) : ~StyleMatch(modules, j, i, style)

\* C30 (SpecHot): for every style index i of the new descriptor whose block
\* differs from the block at i of the descriptor compared against, or has
\* none there: the first live module whose url contains type=style&index=i,
\* ends with .<lang of the new block, else css> and is not a direct request
\* is returned, and with it the main module (when one is live) if that url
\* contains &inline; when no module is accepted the main module (when one
\* is live) is returned.  The update type style is recorded exactly when
\* there is such an index.
C30_StyleLoopReturnsModuleOrMain ==
    HotUpdateDone(ev) =>
        /\ \A i \in 0..(Len(ev.descriptor.styles) - 1) :
              StyleChangedAt(ev.prev, ev.descriptor, i) =>
                  /\ \A k \in 1..Len(ev.modules) :
                        FirstStyleMatch(ev.modules, k, i, At(ev.descriptor.styles, i))
                          => /\ HasUrl(ev.out.result, ev.modules[k].url)
                             /\ (/\ Includes(ev.modules[k].url, "&inline")
                                 /\ getMainModule(ev.modules) # 0)
                                  => HasUrl(ev.out.result, MainOf(ev).url)
                  /\ (/\ \A k \in 1..Len(ev.modules) :
                            ~StyleMatch(ev.modules, k, i, At(ev.descriptor.styles, i))
                      /\ getMainModule(ev.modules) # 0)
                        => HasUrl(ev.out.result, MainOf(ev).url)
        /\ HasUrl(ev.out.updateType, "style") = StyleChangedOrAdded(ev.prev, ev.descriptor)

\* the text of the single style block changed and nothing else; of its two
\* live modules the direct request is passed over, the inline one is
\* returned and the main module with it
C30_Witness ==
    /\ HotUpdateDone(ev)
    /\ SameButStyles(ev.prev, ev.descriptor)
    /\ Len(ev.prev.styles) = 1
    /\ Len(ev.descriptor.styles) = 1
    /\ StyleChangedAt(ev.prev, ev.descriptor, 0)
    /\ ~ev.out.cssVarsChanged
    /\ ~ev.out.scopedChanged
    /\ HasUrl(ev.modules, Mod(Style0Direct, <<>>))
    /\ ev.out.result = <<Style0Inline, MainUrl>>
    /\ ev.out.updateType = <<"style">>

\* no rule but the custom block rule has anything to add
OnlyCustomRule(out) ==
    /\ ~out.scriptChanged
    /\ ~out.templateChanged
    /\ ~out.cssVarsChanged
    /\ ~out.scopedChanged
    /\ ~out.didUpdateStyle
    /\ ~out.stylesRemoved

\* the module at position k is one the custom block lookup accepts for the
\* block of type t at index i
CustomMatch(modules, k, i, t) ==
    Includes(modules[k].url, "type=" \o t \o "&index=" \o ToString(i))

\* C31 (SpecHot): when the two descriptors have different numbers of custom
\* blocks, the main module (when one is live) is returned and the rule
\* returns no module of a block; when the numbers are equal, for every
\* index whose blocks differ the first live module whose url contains
\* type=<type of the old block>&index=<i> is returned, and without such a
\* module the main module (when one is live).
C31_CustomBlocksModuleOrMain ==
    HotUpdateDone(ev) =>
        IF Len(ev.prev.customBlocks) # Len(ev.descriptor.customBlocks)
        THEN /\ getMainModule(ev.modules) # 0 => HasUrl(ev.out.result, MainOf(ev).url)
             /\ OnlyCustomRule(ev.out) =>
                    \A j \in 1..Len(ev.out.result) :
                        /\ getMainModule(ev.modules) # 0
                        /\ ev.out.result[j] = MainOf(ev).url
        ELSE \A i \in 0..(Len(ev.descriptor.customBlocks) - 1) :
                CustomChangedAt(ev.prev, ev.descriptor, i) =>
                    /\ \A k \in 1..Len(ev.modules) :
                          (/\ CustomMatch(ev.modules, k, i, At(ev.prev.customBlocks, i).type)
                           /\ \A j \in 1..(k - 1) :
                                 ~CustomMatch(ev.modules, j, i,
                                              At(ev.prev.customBlocks, i).type))
                            => HasUrl(ev.out.result, ev.modules[k].url)
                    /\ (/\ \A k \in 1..Len(ev.modules) :
                              ~CustomMatch(ev.modules, k, i, At(ev.prev.customBlocks, i).type)
                        /\ getMainModule(ev.modules) # 0)
                          => HasUrl(ev.out.result, MainOf(ev).url)

\* a custom block was added while the first one changed: the module of the
\* first block is live and is not returned, the main module is
C31_Witness ==
    /\ HotUpdateDone(ev)
    /\ OnlyCustomRule(ev.out)
    /\ Len(ev.prev.customBlocks) = 1
    /\ Len(ev.descriptor.customBlocks) = 2
    /\ CustomChangedAt(ev.prev, ev.descriptor, 0)
    /\ FindCustomModule(ev.modules, 0, ev.prev.customBlocks[1]) # 0
    /\ ev.out.result = <<MainUrl>>

\* C32 (SpecHot): when the template changed: without a live type=template
\* module the main module (when one is live) is returned; with one, and
\* with the main module live and not added by a rule before, every
\* importer of the main module that is a CSS request is returned; and when
\* the main module was added, no importer of it is.
C32_TemplateKindMainOrCssImporters ==
    (HotUpdateDone(ev) /\ ev.out.templateChanged /\ getMainModule(ev.modules) # 0) =>
        IF getTemplateModule(ev.modules) = 0
        THEN HasUrl(ev.out.result, MainOf(ev).url)
        ELSE IF ~HasUrl(ev.out.result, MainOf(ev).url)
        THEN \A i \in 1..Len(MainOf(ev).importers) :
                isCSSRequest(MainOf(ev).importers[i])
                    => HasUrl(ev.out.result, MainOf(ev).importers[i])
        ELSE \A i \in 1..Len(MainOf(ev).importers) :
                ~HasUrl(ev.out.result, MainOf(ev).importers[i])

\* the script and the template changed, no script module is live, so the
\* script rule added the main module; the stylesheet that imports the main
\* module is not returned
C32_Witness ==
    /\ HotUpdateDone(ev)
    /\ ev.out.templateChanged
    /\ ev.out.scriptChanged
    /\ getScriptModule(ev.modules) = 0
    /\ getTemplateModule(ev.modules) # 0
    /\ getMainModule(ev.modules) # 0
    /\ HasUrl(MainOf(ev).importers, CssImporter)
    /\ ev.out.result = <<MainUrl, TemplateUrl>>

\* what the resolved scripts cc hold for descriptor d
ResolvedOf(cc, d) ==
    IF HasResolvedScript(cc, d) THEN getResolvedScript(cc, d) ELSE [undefined |-> TRUE]

\* C33 (SpecHot): handleHotUpdate gives the new descriptor the resolved
\* script of the descriptor it compared against exactly when the template
\* changed and the script did not; when the script changed or the template
\* did not, the new descriptor's resolved script is what it was before the
\* call.
C33_ReusesScriptOnTemplateOnlyChange ==
    [][HotUpdateDone(ev') =>
          IF MarkupChanged(ev'.prev, ev'.descriptor) /\ ~ev'.out.scriptChanged
          THEN HasResolvedScript(clientCache, ev'.prev)
                  => ResolvedOf(clientCache', ev'.descriptor)
                        = getResolvedScript(clientCache, ev'.prev)
          ELSE ResolvedOf(clientCache', ev'.descriptor)
                  = ResolvedOf(clientCache, ev'.descriptor)]_vars

\* the template stopped using the import of <script setup>: the script is
\* not taken as changed, and the new descriptor has the resolved script of
\* the old one, in which the import is marked as used
C33_Witness ==
    /\ HotUpdateDone(ev)
    /\ ev.out.templateChanged
    /\ ~ev.out.scriptChanged
    /\ ev.descriptor.scriptSetup # NoBlock
    /\ HasResolvedScript(clientCache, ev.descriptor)
    /\ getResolvedScript(clientCache, ev.descriptor) = CompileScript(ev.prev)
    /\ CompileScript(ev.prev) # CompileScript(ev.descriptor)

\* the block type an address names, as the plugin's own parser reads it
TypeOf(url) == Param(RawQuery(url), "type")

\* the modules getMainModule's filter keeps
MainCandidates(modules) ==
    {k \in 1..Len(modules) :
        ~Includes(modules[k].url, "type=") \/ Includes(modules[k].url, "type=script")}

\* C34 (SpecBlocks): getMainModule returns, among the live modules whose
\* url has no type= or has type=script, the earliest of those of minimal
\* url length, and nothing exactly when there is no such module; the
\* module it returns is never a template, style or custom block module.
C34_MainModuleIsShortestCandidate ==
    ev.op = "getMainModule" =>
        /\ ev.ret = 0 <=> MainCandidates(ev.modules) = {}
        /\ ev.ret # 0 =>
              /\ ev.ret \in MainCandidates(ev.modules)
              /\ \A k \in MainCandidates(ev.modules) :
                    /\ Len(ev.modules[ev.ret].url) <= Len(ev.modules[k].url)
                    /\ Len(ev.modules[ev.ret].url) = Len(ev.modules[k].url) => ev.ret <= k
              /\ TypeOf(ev.modules[ev.ret].url) \in {Absent, "script"}

\* the block index an address names
IndexOf(url) == Param(RawQuery(url), "index")

\* C35 (SpecBlocks): the module the lookup of handleHotUpdate selects for
\* the changed style block of index i, and the one it selects for the
\* changed custom block of index i, has index i in its address, whatever
\* other modules are live and in whatever order.
C35_LookupSelectsExactIndex ==
    ev.op = "find" =>
        /\ ev.style # 0 => IndexOf(ev.modules[ev.style].url) = ToString(ev.i)
        /\ ev.custom # 0 => IndexOf(ev.modules[ev.custom].url) = ToString(ev.i)

\* url is the url of one of the live modules handed to the call
IsLive(modules, url) == \E k \in 1..Len(modules) : modules[k].url = url

\* C36 (SpecHot): every module handleHotUpdate returns is one of the live
\* modules it was handed or an importer of the main module; an importer of
\* the main module that is not itself one of the live modules is returned
\* only when the template changed, a template module is live and the main
\* module is not returned.
C36_ResultIsLiveOrMainImporter ==
    HotUpdateDone(ev) =>
        \A j \in 1..Len(ev.out.result) :
            \/ IsLive(ev.modules, ev.out.result[j])
            \/ /\ getMainModule(ev.modules) # 0
               /\ HasUrl(MainOf(ev).importers, ev.out.result[j])
               /\ ev.out.templateChanged
               /\ getTemplateModule(ev.modules) # 0
               /\ ~HasUrl(ev.out.result, MainOf(ev).url)

\* the template and the style changed: the template module, the style
\* module and the stylesheet importing the main module are returned
C36_Witness ==
    /\ HotUpdateDone(ev)
    /\ ev.out.templateChanged
    /\ ev.out.didUpdateStyle
    /\ ev.out.result = <<TemplateUrl, Style0Url, CssImporter>>
    /\ ~IsLive(ev.modules, CssImporter)

\* C37 (SpecSerial): a handleHotUpdate call that read the content leaves in
\* hmrCache the descriptor parsed from that content, with or without parse
\* errors and whatever the rules found; the main transform leaves an
\* existing hmrCache entry as it is; so, the edits being processed one
\* after the other, the descriptor a hot update compares against is that
\* of the content the preceding hot update read, or of the content first
\* loaded: the content that was live before the edit.
C37_HmrCacheFollowsHotUpdates ==
    [][/\ HotUpdateDone(ev') =>
            /\ hmrCache'[ev'.file] = ev'.descriptor
            /\ ev'.descriptor.source = disk[ev'.file]
            /\ ev'.prev = hmrCache[ev'.file]
            /\ ev'.prev.source = edited[ev'.file]
       /\ ev'.op = "transformMain" =>
            (hmrCache[ev'.file] # NoDescriptor
                => hmrCache'[ev'.file] = hmrCache[ev'.file])]_vars

\* the third hot update of the file read a content with a syntax error and
\* found nothing to return; hmrCache holds that content's descriptor, and
\* the call compared it with the content of the second edit
C37_Witness ==
    /\ HotUpdateDone(ev)
    /\ ev.errors # <<>>
    /\ ev.out.result = <<>>
    /\ hmrCache[ev.file] = ev.descriptor
    /\ ev.descriptor.source.rev = 3
    /\ ev.prev.source.rev = 2

\* C38 (SpecRace): the descriptor a handleHotUpdate call compares its new
\* descriptor with is the one hmrCache holds when the call resumes, so a
\* call that resumes after an overlapping call compares with what that
\* call stored.
C38_ResumedCallDiffsAgainstStored ==
    [][HotUpdateDone(ev') => ev'.prev = hmrCache[ev'.file]]_vars


\* the custom blocks at index i of the two descriptors differ in nothing
\* but their type
OnlyTypeChangedAt(prev, next, i) ==
    /\ At(prev.customBlocks, i).type # At(next.customBlocks, i).type
    /\ At(prev.customBlocks, i).content = At(next.customBlocks, i).content
    /\ At(prev.customBlocks, i).attrs = At(next.customBlocks, i).attrs

\* C39 (SpecHot): when an edit changes only the type of the custom block
\* at index i, with the number of custom blocks, the content and the
\* attributes of the block kept, the result contains the live module of
\* that block or, without one, the main module (when one is live).
C39_CustomTypeChangeIsReported ==
    HotUpdateDone(ev) =>
        (Len(ev.prev.customBlocks) = Len(ev.descriptor.customBlocks) =>
            \A i \in 0..(Len(ev.descriptor.customBlocks) - 1) :
                OnlyTypeChangedAt(ev.prev, ev.descriptor, i) =>
                    IF FindCustomModule(ev.modules, i, At(ev.prev.customBlocks, i)) # 0
                    THEN HasUrl(ev.out.result,
                                ev.modules[FindCustomModule(ev.modules, i,
                                               At(ev.prev.customBlocks, i))].url)
                    ELSE getMainModule(ev.modules) # 0 =>
                            HasUrl(ev.out.result, MainOf(ev).url))


\* the hook ran handleHotUpdate, or nothing, for the file of the step e
HookNotTypeDep(e) ==
    /\ e.op \in {"handleHotUpdate", "handleHotUpdate.await", "handleHotUpdate.skip"}
    /\ ~e.resumed

\* the module handleTypeDepChange is to add for the modules arr of a
\* component: the script module, else the main module
ScriptOrMain(arr, url) ==
    IF getScriptModule(arr) # 0 THEN url = arr[getScriptModule(arr)].url
    ELSE getMainModule(arr) # 0 /\ url = arr[getMainModule(arr)].url

\* C40 (SpecDep): a change of a file registered in typeDepToSFCMap is
\* handled by handleTypeDepChange, also when the file passes the filter of
\* components; its result contains every module of the event and, for
\* every affected component with live modules, that component's script
\* module or else its main module; the result has no absent entry; and the
\* resolved script of every affected component is dropped, whether or not
\* the component has live modules.
C40_TypeDepChangeResult ==
    [][/\ HookNotTypeDep(ev') => ~HasTypeDep(typeDepToSFCMap, ev'.file)
       /\ ev'.op = "handleTypeDepChange" =>
            /\ HasTypeDep(typeDepToSFCMap, ev'.file)
            /\ \A k \in 1..Len(ev'.modules) : HasUrl(ev'.out.result, ev'.modules[k].url)
            /\ \A j \in 1..Len(ev'.out.affectedComponents) :
                  ev'.out.graph[ev'.out.affectedComponents[j]] # NoMods =>
                      \E r \in 1..Len(ev'.out.result) :
                          ScriptOrMain(ev'.out.graph[ev'.out.affectedComponents[j]].mods,
                                       ev'.out.result[r])
            /\ ~HasUrl(ev'.out.result, Absent)
            /\ \A j \in 1..Len(ev'.out.affectedComponents) :
                  cache'[ev'.out.affectedComponents[j]] # NoDescriptor =>
                      ~HasResolvedScript(clientCache',
                                         cache'[ev'.out.affectedComponents[j]])]_vars

============================================================================
